---- MODULE Spec2Model ----
(***************************************************************************)
(* Verification model of harp.gl's ThemeLoader                             *)
(* (@here/harp-mapview/lib/ThemeLoader.ts).                                *)
(*                                                                         *)
(* Themes are JavaScript objects: they live in a heap and are mutated in   *)
(* place.  Style-set arrays are heap cells of their own, because the       *)
(* inheritance merge copies the `styles` dictionary shallowly, so the      *)
(* arrays are shared between a base theme and the themes derived from it.  *)
(* Every `async` call is a frame on its task's stack.  A task runs         *)
(* synchronously (running = t) until it awaits; the continuation of an     *)
(* await is a later step that is taken while no task is running.           *)
(***************************************************************************)
EXTENDS Integers, Sequences, FiniteSets, TLC

VARIABLES heap, arrays, input, calls, task, running

\* The state of the tile geometry creator and of the objects it works on.
VARIABLES decodedTiles, tiles, mapViews, renderStyles, m_colorMap, m_maxPathLengthSqr,
          callsLeft, lastCall, styleLog

tileVars == <<decodedTiles, tiles, mapViews, renderStyles, m_colorMap, m_maxPathLengthSqr,
              callsLeft, lastCall, styleLog>>

\* The work list of a prepareTextPaths call that is followed iteration by
\* iteration.
VARIABLES newPaths, processedPaths

workVars == <<newPaths, processedPaths>>

\* A MessagePortCallAdapter with its promises and the messages it posted to
\* its target, and a BasicAbstractMessagePort with the events its listeners
\* received.
VARIABLES m_nextRequestId, m_requests, promises, posted,
          m_listeners, m_queuedEvents, delivered

portVars == <<m_nextRequestId, m_requests, promises, posted,
              m_listeners, m_queuedEvents, delivered>>

themeVars == <<heap, arrays, input, calls, task, running>>

vars == <<heap, arrays, input, calls, task, running, tileVars, workVars, portVars>>

\* ------------------------------------------------------------------ bounds
DEFAULT_MAX_THEME_INTHERITANCE_DEPTH == 4
\* the heap holds at most MaxObjs theme objects
MaxObjs == 20
\* the server holds the inheritance chains of 1..ChainMax documents
ChainMax == 6

\* a style set of the expansion inputs holds at most MaxStyles entries
MaxStyles == 2

Tasks == {1, 2}

\* the tile creator is called at most MaxCalls times
MaxCalls == 3
\* a geometry of the object builds holds at most MaxGroups groups
MaxGroups == 3
\* a text path of the path inputs holds at most MaxPoints vertices
MaxPoints == 4
\* m_maxPathLengthSqr while it is undefined
NoNumber == -1

\* ------------------------------------------------------------ plain values
EmptyMap == [x \in {} |-> 0]
Override(base, over) ==
    [k \in DOMAIN base \cup DOMAIN over |-> IF k \in DOMAIN over THEN over[k] ELSE base[k]]
Without(f, k) == [x \in DOMAIN f \ {k} |-> f[x]]
Last(s) == s[Len(s)]
Front(s) == SubSeq(s, 1, Len(s) - 1)

\* URLs: a directory and a document in it; a relative URL has no directory.
NoUrl == [dir |-> "", name |-> "", idx |-> 0]
Url(d, n, i) == [dir |-> d, name |-> n, idx |-> i]
Relative(n, i) == Url("", n, i)
isDefinedUrl(u) == u.name # ""

resolveReferenceUrl(parentUrl, childUrl) ==
    IF childUrl.dir # "" THEN childUrl ELSE [childUrl EXCEPT !.dir = parentUrl.dir]
defaultUrlResolver(url) == url
childUrlResolver(theme, childUrl) ==
    defaultUrlResolver(resolveReferenceUrl(theme.url, childUrl))

\* `extends`: undefined, a URL string or an embedded theme object.
NoExt == [kind |-> "none", url |-> NoUrl, obj |-> 0]
ExtUrl(u) == [kind |-> "url", url |-> u, obj |-> 0]
ExtObj(i) == [kind |-> "obj", url |-> NoUrl, obj |-> i]

\* Attribute values and definitions.
Ref(n) == [ref |-> n]
Lit(v) == [lit |-> v]
ValueDef(v) == [type |-> "color", value |-> Lit(v)]
Undefined == [undefined |-> TRUE]
Lookup(defs, n) == IF n \in DOMAIN defs THEN defs[n] ELSE Undefined

\* The theme loader does not touch tiles: no tile, no map view, nothing cached.
\* No prepareTextPaths call is followed.
NoWork ==
    /\ newPaths = <<>>
    /\ processedPaths = <<>>

\* The adapter and the port as their constructors leave them: m_listeners has
\* no initializer.
NoPort ==
    /\ m_nextRequestId = 1
    /\ m_requests = EmptyMap
    /\ promises = <<>>
    /\ posted = <<>>
    /\ m_listeners = Undefined
    /\ m_queuedEvents = <<>>
    /\ delivered = <<>>

NoTiles ==
    /\ decodedTiles = EmptyMap
    /\ tiles = EmptyMap
    /\ mapViews = EmptyMap
    /\ renderStyles = <<>>
    /\ m_colorMap = EmptyMap
    /\ m_maxPathLengthSqr = NoNumber
    /\ callsLeft = 0
    /\ lastCall = [fn |-> "none"]
    /\ styleLog = {}
    /\ NoWork
    /\ NoPort

isReference(value) == "ref" \in DOMAIN value
isValueDefinition(def) == {"type", "value"} \subseteq DOMAIN def

\* ------------------------------------------------- expandReferences, pure part
\* JSON.parse(JSON.stringify(def)): a deep copy, except that stringify(undefined)
\* is undefined and JSON.parse(undefined) throws a SyntaxError.
jsonCloneThrows(def) == "undefined" \in DOMAIN def
jsonClone(def) == def

\* Mutant: a resolved reference is replaced by the definition, not by its value.
expandAttr_StoresDefinition(attr, defs) ==
    LET def(p) == Lookup(defs, attr[p].ref)
        deleted(p) == isReference(attr[p]) /\ ("undefined" \in DOMAIN def(p) \/ ~isValueDefinition(def(p)))
    IN  [p \in {q \in DOMAIN attr : ~deleted(q)} |->
            IF isReference(attr[p]) THEN def(p) ELSE attr[p]]

\* The loop over the properties of style.attr.
expandAttr(attr, defs) ==
    LET def(p) == Lookup(defs, attr[p].ref)
        deleted(p) == isReference(attr[p]) /\ ("undefined" \in DOMAIN def(p) \/ ~isValueDefinition(def(p)))
    IN  [p \in {q \in DOMAIN attr : ~deleted(q)} |->
            IF isReference(attr[p]) THEN def(p).value ELSE attr[p]]

expandStyleAttr(style, defs) ==
    IF "attr" \notin DOMAIN style
    THEN style
    ELSE [style EXCEPT !["attr"] = expandAttr(style["attr"], defs)]

\* A style entry that is a $ref to a definition that is no value definition is
\* instantiated from a JSON copy of the definition.
styleEntryThrows(style, defs) ==
    /\ isReference(style)
    /\ ~isValueDefinition(Lookup(defs, style.ref))
    /\ jsonCloneThrows(Lookup(defs, style.ref))

\* Mutant: the fields of the definition win over the fields of the entry.
expandStyleEntry_DefinitionWins(style, defs) ==
    IF isReference(style)
    THEN LET def == Lookup(defs, style.ref)
         IN  IF isValueDefinition(def)
             THEN style
             ELSE expandStyleAttr(Without(Override(Without(style, "ref"), jsonClone(def)), "ref"), defs)
    ELSE expandStyleAttr(style, defs)

\* The forEach callback for one entry (that does not throw).
expandStyleEntry(style, defs) ==
    IF isReference(style)
    THEN LET def == Lookup(defs, style.ref)
         IN  IF isValueDefinition(def)
             THEN style
             ELSE expandStyleAttr(Override(jsonClone(def), Without(style, "ref")), defs)
    ELSE expandStyleAttr(style, defs)

\* styleSet.forEach: the entries before the first throwing one are expanded.
expandStyleSet(styleSet, defs) ==
    LET bad == {i \in 1..Len(styleSet) : styleEntryThrows(styleSet[i], defs)}
        first == IF bad = {} THEN Len(styleSet) + 1
                 ELSE CHOOSE i \in bad : \A j \in bad : i <= j
    IN  [styles |-> [i \in 1..Len(styleSet) |->
                        IF i < first THEN expandStyleEntry(styleSet[i], defs) ELSE styleSet[i]],
         threw |-> bad # {}]

\* ------------------------------------------------------------- theme objects
Theme(ext, url, img, hasDefs, defs, hasStyles, styles) ==
    [ext |-> ext, url |-> url, img |-> img, hasDefs |-> hasDefs, defs |-> defs,
     hasStyles |-> hasStyles, styles |-> styles]

\* The "roads" style of the test themes.
RoadsStyle ==
    [description |-> "roads", when |-> "kind == 'road", technique |-> "solid-line",
     attr |-> [lineWidth |-> Ref("primaryRoadFillLineWidth"), lineColor |-> Ref("roadColor")]]

\* --------------------------------------------------------------- the server
\* chain 1 is the base theme of the tests; chain k > 1 extends chain k-1 by a
\* relative URL, chain 2 overriding roadColor; cycle 0 and cycle 1 extend each other.
NotFound == [ok |-> FALSE]
Document(url) ==
    IF url.dir = "srv" /\ url.name = "chain" /\ url.idx \in 1..ChainMax
    THEN [ok |-> TRUE,
          ext |-> IF url.idx = 1 THEN NoExt ELSE ExtUrl(Relative("chain", url.idx - 1)),
          hasDefs |-> url.idx <= 2,
          defs |-> IF url.idx = 1
                   THEN [roadColor |-> ValueDef("#f00"), primaryRoadFillLineWidth |-> ValueDef("w")]
                   ELSE IF url.idx = 2 THEN [roadColor |-> ValueDef("#fff")] ELSE EmptyMap,
          hasStyles |-> url.idx = 1,
          styleSets |-> IF url.idx = 1 THEN [tilezen |-> <<RoadsStyle>>] ELSE EmptyMap]
    ELSE IF url.dir = "srv" /\ url.name = "cycle" /\ url.idx \in {0, 1}
    THEN [ok |-> TRUE, ext |-> ExtUrl(Relative("cycle", 1 - url.idx)),
          hasDefs |-> FALSE, defs |-> EmptyMap, hasStyles |-> FALSE, styleSets |-> EmptyMap]
    ELSE NotFound

\* ---------------------------------------------------------------- resolveUrls
RECURSIVE resolveUrls(_, _)
resolveUrls(h, id) ==
    IF ~isDefinedUrl(h[id].url)
    THEN h
    ELSE LET theme == h[id]
             h1 == IF theme.ext.kind = "url"
                   THEN [h EXCEPT ![id].ext = ExtUrl(childUrlResolver(theme, theme.ext.url))]
                   ELSE IF theme.ext.kind = "obj" /\ ~isDefinedUrl(h[theme.ext.obj].url)
                   THEN resolveUrls([h EXCEPT ![theme.ext.obj].url = theme.url], theme.ext.obj)
                   ELSE h
         IN  IF isDefinedUrl(h1[id].img)
             THEN [h1 EXCEPT ![id].img = childUrlResolver(theme, h1[id].img)]
             ELSE h1

\* ------------------------------------------------ resolveBaseTheme: the merge
\* Mutant: the definitions are merged base over child.
mergeThemes_BaseWins(actualBaseTheme, theme) ==
    [ext |-> IF theme.ext.kind # "none" THEN theme.ext ELSE actualBaseTheme.ext,
     url |-> IF isDefinedUrl(theme.url) THEN theme.url ELSE actualBaseTheme.url,
     img |-> IF isDefinedUrl(theme.img) THEN theme.img ELSE actualBaseTheme.img,
     hasDefs |-> TRUE,
     defs |-> Override(theme.defs, actualBaseTheme.defs),
     hasStyles |-> TRUE,
     styles |-> Override(actualBaseTheme.styles, theme.styles)]

\* Mutant: the definitions of the base are not merged in.
mergeThemes_DropsBase(actualBaseTheme, theme) ==
    [ext |-> IF theme.ext.kind # "none" THEN theme.ext ELSE actualBaseTheme.ext,
     url |-> IF isDefinedUrl(theme.url) THEN theme.url ELSE actualBaseTheme.url,
     img |-> IF isDefinedUrl(theme.img) THEN theme.img ELSE actualBaseTheme.img,
     hasDefs |-> TRUE,
     defs |-> theme.defs,
     hasStyles |-> TRUE,
     styles |-> Override(actualBaseTheme.styles, theme.styles)]

\* { ...actualBaseTheme, ...theme, definitions, styles }
mergeThemes(actualBaseTheme, theme) ==
    [ext |-> IF theme.ext.kind # "none" THEN theme.ext ELSE actualBaseTheme.ext,
     url |-> IF isDefinedUrl(theme.url) THEN theme.url ELSE actualBaseTheme.url,
     img |-> IF isDefinedUrl(theme.img) THEN theme.img ELSE actualBaseTheme.img,
     hasDefs |-> TRUE,
     defs |-> Override(actualBaseTheme.defs, theme.defs),
     hasStyles |-> TRUE,
     styles |-> Override(actualBaseTheme.styles, theme.styles)]

\* response.json(): the document as a fresh theme object whose url is the URL it
\* was fetched from, each of its style sets a fresh array.
fetched(st, themeUrl) ==
    LET doc == Document(themeUrl)
        names == DOMAIN doc.styleSets
        n == Len(st.arrays)
        slot == CHOOSE g \in [names -> n + 1 .. n + Cardinality(names)] :
                    \A a, b \in names : a # b => g[a] # g[b]
    IN  [heap |-> Append(st.heap,
                     Theme(doc.ext, themeUrl, NoUrl, doc.hasDefs, doc.defs, doc.hasStyles, slot)),
         arrays |-> [a \in 1 .. n + Cardinality(names) |->
                        IF a <= n THEN st.arrays[a]
                        ELSE doc.styleSets[CHOOSE x \in names : slot[x] = a]]]

\* expandReferences after resolveBaseTheme: nothing to do without styles or
\* without definitions; otherwise every style set of the result is expanded in
\* place, up to the first entry that throws.
expandsNothing(result) == ~result.hasStyles \/ ~result.hasDefs
usedArrays(result) == {result.styles[n] : n \in DOMAIN result.styles}
expandedArrays(a, result) ==
    IF expandsNothing(result) THEN a
    ELSE [x \in DOMAIN a |->
             IF x \in usedArrays(result) THEN expandStyleSet(a[x], result.defs).styles ELSE a[x]]
expansionThrows(a, result) ==
    /\ ~expandsNothing(result)
    /\ \E x \in usedArrays(result) : expandStyleSet(a[x], result.defs).threw

\* --------------------------------------------------------- tasks and frames
\* A frame is one activation of load, resolveBaseTheme or expandReferences.
Frame(fn, pc, arg, theme, expand, depth) ==
    [fn |-> fn, pc |-> pc, arg |-> arg, theme |-> theme, expand |-> expand, depth |-> depth]
loadFrame(arg, expand) == Frame("load", "start", arg, 0, expand, 0)
resolveFrame(theme, maxInheritanceDepth) ==
    Frame("resolveBaseTheme", "start", NoExt, theme, FALSE, maxInheritanceDepth)
expandFrame(theme) == Frame("expandReferences", "start", NoExt, theme, FALSE, 0)

IdleTask == [status |-> "idle", stack |-> <<>>, ret |-> 0, error |-> ""]

Top(t) == Last(task[t].stack)
AtTop(t, fn, pc) ==
    /\ task[t].status = "active"
    /\ Top(t).fn = fn
    /\ Top(t).pc = pc

\* The stack of t with its top frame replaced by the frames fs.
Replaced(t, fs) == Front(task[t].stack) \o fs

\* The top frame returns `value` to the frame below, which continues in a later
\* step; the return of the bottom frame settles the call.
Returned(t, value) ==
    [task EXCEPT ![t] = [status |-> IF Len(task[t].stack) = 1 THEN "done" ELSE "active",
                         stack |-> Front(task[t].stack), ret |-> value, error |-> ""]]

\* No frame catches: a throw rejects the promise of the whole call.
Thrown(t, error) ==
    [task EXCEPT ![t] = [status |-> "failed", stack |-> <<>>, ret |-> 0, error |-> error]]

\* ------------------------------------------------------------------ actions
\* The client calls one of the three entry points (calls[t] is its call).
Call(t) ==
    /\ running = 0
    /\ UNCHANGED <<tileVars, workVars, portVars>>
    /\ task[t].status = "idle"
    /\ task' = [task EXCEPT ![t] = [status |-> "active", stack |-> <<calls[t]>>,
                                    ret |-> 0, error |-> ""]]
    /\ running' = t
    /\ UNCHANGED <<heap, arrays, input, calls>>

\* load up to its first await: the fetch of a URL, or, for a theme object,
\* resolveUrls and the call of resolveBaseTheme.
LoadBegin(t) ==
    /\ running = t
    /\ UNCHANGED <<tileVars, workVars, portVars>>
    /\ AtTop(t, "load", "start")
    /\ LET f == Top(t) IN
       IF f.arg.kind = "url"
       THEN /\ task' = [task EXCEPT ![t].stack = Replaced(t,
                           <<[f EXCEPT !.pc = "fetch", !.arg = ExtUrl(defaultUrlResolver(f.arg.url))]>>)]
            /\ running' = 0
            /\ UNCHANGED <<heap, arrays, input, calls>>
       ELSE /\ heap' = resolveUrls(heap, f.arg.obj)
            /\ task' = [task EXCEPT ![t].stack = Replaced(t,
                           << [f EXCEPT !.pc = "awaitBase", !.theme = f.arg.obj],
                              resolveFrame(f.arg.obj, DEFAULT_MAX_THEME_INTHERITANCE_DEPTH) >>)]
            /\ UNCHANGED <<arrays, input, calls, running>>

\* The response arrives: a failed response throws; otherwise the JSON document
\* becomes a fresh theme object with its url set, and load goes on as above.
FetchDone(t) ==
    /\ running = 0
    /\ UNCHANGED <<tileVars, workVars, portVars>>
    /\ AtTop(t, "load", "fetch")
    /\ LET f == Top(t)
           doc == Document(f.arg.url)
           id == Len(heap) + 1
       IN
       IF ~doc.ok
       THEN /\ task' = Thrown(t, "load")
            /\ UNCHANGED <<heap, arrays, input, calls, running>>
       ELSE /\ Len(heap) < MaxObjs
            /\ LET st == fetched([heap |-> heap, arrays |-> arrays], f.arg.url)
               IN  /\ arrays' = st.arrays
                   /\ heap' = resolveUrls(st.heap, id)
            /\ task' = [task EXCEPT ![t].stack = Replaced(t,
                           << [f EXCEPT !.pc = "awaitBase", !.theme = id],
                              resolveFrame(id, DEFAULT_MAX_THEME_INTHERITANCE_DEPTH) >>)]
            /\ running' = t
            /\ UNCHANGED <<input, calls>>

\* resolveBaseTheme up to its await of the base theme's load.
ResolveBegin(t) ==
    /\ running = t
    /\ UNCHANGED <<tileVars, workVars, portVars>>
    /\ AtTop(t, "resolveBaseTheme", "start")
    /\ LET f == Top(t) IN
       IF heap[f.theme].ext.kind = "none"
       THEN /\ task' = Returned(t, f.theme)
            /\ running' = 0
            /\ UNCHANGED <<heap, arrays, input, calls>>
       ELSE IF f.depth <= 0
       THEN /\ task' = Thrown(t, "maxInheritanceDepth")
            /\ running' = 0
            /\ UNCHANGED <<heap, arrays, input, calls>>
       ELSE /\ heap' = [heap EXCEPT ![f.theme].ext = NoExt]
            /\ task' = [task EXCEPT ![t].stack = Replaced(t,
                           << [f EXCEPT !.pc = "awaitLoad"], loadFrame(heap[f.theme].ext, FALSE) >>)]
            /\ UNCHANGED <<arrays, input, calls, running>>

\* The base theme is loaded: merge, and resolve the merged theme one level deeper.
ResolveMerge(t) ==
    /\ running = 0
    /\ UNCHANGED <<tileVars, workVars, portVars>>
    /\ AtTop(t, "resolveBaseTheme", "awaitLoad")
    /\ Len(heap) < MaxObjs
    /\ LET f == Top(t)
           actualBaseTheme == heap[task[t].ret]
       IN  /\ heap' = Append(heap, mergeThemes(actualBaseTheme, heap[f.theme]))
           /\ task' = [task EXCEPT ![t].stack = Replaced(t,
                          << resolveFrame(Len(heap) + 1, f.depth - 1) >>)]
    /\ running' = t
    /\ UNCHANGED <<arrays, input, calls>>

\* load after its await of resolveBaseTheme.
LoadResume(t) ==
    /\ running = 0
    /\ UNCHANGED <<tileVars, workVars, portVars>>
    /\ AtTop(t, "load", "awaitBase")
    /\ LET withBase == task[t].ret IN
       IF Top(t).expand
       THEN /\ task' = [task EXCEPT ![t].stack = Replaced(t, << expandFrame(withBase) >>)]
            /\ running' = t
       ELSE /\ task' = Returned(t, withBase)
            /\ running' = 0
    /\ UNCHANGED <<heap, arrays, input, calls>>

\* expandReferences up to its await of resolveBaseTheme.
ExpandBegin(t) ==
    /\ running = t
    /\ UNCHANGED <<tileVars, workVars, portVars>>
    /\ AtTop(t, "expandReferences", "start")
    /\ LET f == Top(t) IN
       task' = [task EXCEPT ![t].stack = Replaced(t,
                   << [f EXCEPT !.pc = "awaitBase"],
                      resolveFrame(f.theme, DEFAULT_MAX_THEME_INTHERITANCE_DEPTH) >>)]
    /\ UNCHANGED <<heap, arrays, input, calls, running>>

\* expandReferences after the await.
ExpandResume(t) ==
    /\ running = 0
    /\ UNCHANGED <<tileVars, workVars, portVars>>
    /\ AtTop(t, "expandReferences", "awaitBase")
    /\ LET result == heap[task[t].ret] IN
       /\ arrays' = expandedArrays(arrays, result)
       /\ task' = IF expansionThrows(arrays, result)
                  THEN Thrown(t, "SyntaxError")
                  ELSE Returned(t, task[t].ret)
    /\ UNCHANGED <<heap, input, calls, running>>

\* ------------------------------------------------------------ initial states
\* The client's themes: children X (object 1) and Y (object 2), which may
\* extend the same in-memory base B (object 3), which may extend BB (object 4).
X == 1
Y == 2
B == 3
BB == 4
BaseUrl == Url("srv", "chain", 1)
FillStyle == [technique |-> "fill", attr |-> [color |-> Ref("roadColor")]]

ClientHeap(xExt, xHasDefs, xHasStyles, withUrls, bExt) ==
    << Theme(xExt, IF withUrls THEN Url("x", "theme", 0) ELSE NoUrl, NoUrl,
             xHasDefs, IF xHasDefs THEN [roadColor |-> ValueDef("#fff")] ELSE EmptyMap,
             xHasStyles, IF xHasStyles THEN [tilezen |-> 2] ELSE EmptyMap),
       Theme(ExtObj(B), IF withUrls THEN Url("y", "theme", 0) ELSE NoUrl, NoUrl,
             TRUE, [roadColor |-> ValueDef("#0f0")], FALSE, EmptyMap),
       Theme(bExt, NoUrl, Relative("icons", 0),
             TRUE, [roadColor |-> ValueDef("#f00")], TRUE, [tilezen |-> 1]),
       Theme(NoExt, NoUrl, NoUrl,
             TRUE, [primaryRoadFillLineWidth |-> ValueDef("w")], FALSE, EmptyMap) >>

ClientArrays == << <<RoadsStyle>>, <<FillStyle>> >>

ClientHeaps ==
    { ClientHeap(xExt, xHasDefs, xHasStyles, withUrls, bExt) :
        xExt \in {ExtObj(B), ExtUrl(BaseUrl)}, xHasDefs \in BOOLEAN, xHasStyles \in BOOLEAN,
        withUrls \in BOOLEAN, bExt \in {NoExt, ExtObj(BB)} }

\* The calls of the client: on its own themes, or on the server's documents.
LocalCalls ==
    { <<c1, c2>> :
        c1 \in {loadFrame(ExtObj(X), TRUE), loadFrame(ExtObj(X), FALSE), expandFrame(X),
                resolveFrame(X, DEFAULT_MAX_THEME_INTHERITANCE_DEPTH), resolveFrame(X, 0)},
        c2 \in {loadFrame(ExtObj(Y), TRUE), loadFrame(ExtUrl(BaseUrl), TRUE)} }
RemoteUrls ==
    {Url("srv", "chain", k) : k \in 1..ChainMax} \cup {Url("srv", "cycle", 0), Url("srv", "missing", 0)}
RemoteCalls ==
    { <<loadFrame(ExtUrl(u), e), loadFrame(ExtObj(Y), TRUE)>> : u \in RemoteUrls, e \in BOOLEAN }

Init ==
    /\ \/ heap \in ClientHeaps /\ calls \in LocalCalls
       \/ heap = ClientHeap(ExtObj(B), TRUE, FALSE, FALSE, ExtObj(BB)) /\ calls \in RemoteCalls
    /\ arrays = ClientArrays
    /\ input = [heap |-> heap, arrays |-> arrays]
    /\ task = [t \in Tasks |-> IdleTask]
    /\ running = 0
    /\ NoTiles

Next ==
    \E t \in Tasks :
        \/ Call(t)
        \/ LoadBegin(t)
        \/ FetchDone(t)
        \/ ResolveBegin(t)
        \/ ResolveMerge(t)
        \/ LoadResume(t)
        \/ ExpandBegin(t)
        \/ ExpandResume(t)

Spec == Init /\ [][Next]_vars

\* --------------------------------------- initial states: reference expansion
\* One theme (object 1) with every mix of definitions and style entries below,
\* alone or extending an in-memory base (object 2); one call expands it.
RoadTechnique ==
    [description |-> "roads", when |-> "w1", technique |-> "solid-line",
     attr |-> [lineColor |-> Ref("roadColor"), lineWidth |-> Lit("2")]]
StyleEntries ==
    { [description |-> "roads", technique |-> "solid-line",
       attr |-> [lineColor |-> Ref("roadColor"), lineWidth |-> Lit("2")]],
      [technique |-> "fill", attr |-> [color |-> Ref("missingDef")]],
      [technique |-> "fill", attr |-> [color |-> Ref("roadTechnique"), opacity |-> Lit("1")]],
      [technique |-> "text"],
      [when |-> "w2", ref |-> "roadTechnique"],
      [ref |-> "roadTechnique", attr |-> [lineColor |-> Lit("#000")]],
      [ref |-> "roadColor"],
      [ref |-> "missingDef"] }
StyleSetInputs ==
    UNION { [1..n -> StyleEntries] : n \in 1..MaxStyles }
DefinitionInputs ==
    { EmptyMap,
      [roadColor |-> ValueDef("#f00")],
      [roadTechnique |-> RoadTechnique],
      [roadColor |-> ValueDef("#f00"), roadTechnique |-> RoadTechnique] }
ExpandCalls == {expandFrame(1), loadFrame(ExtObj(1), TRUE)}

InitExpand ==
    /\ \E ext \in {NoExt, ExtObj(2)}, hasDefs \in BOOLEAN, defs \in DefinitionInputs,
          hasStyles \in BOOLEAN, styleSet \in StyleSetInputs, call \in ExpandCalls :
          /\ hasDefs \/ defs = EmptyMap
          /\ hasStyles \/ styleSet = << [technique |-> "text"] >>
          /\ heap = << Theme(ext, NoUrl, NoUrl, hasDefs, defs, hasStyles,
                             IF hasStyles THEN [tilezen |-> 1] ELSE EmptyMap),
                       Theme(NoExt, NoUrl, NoUrl, TRUE, [roadColor |-> ValueDef("#00f")],
                             FALSE, EmptyMap) >>
          /\ arrays = << styleSet >>
          /\ calls = <<call, call>>
    /\ input = [heap |-> heap, arrays |-> arrays]
    /\ task = [t \in Tasks |-> IdleTask]
    /\ running = 0
    /\ NoTiles

\* Only the first call is made.
NextExpand ==
    \/ Call(1)
    \/ LoadBegin(1)
    \/ ResolveBegin(1)
    \/ ResolveMerge(1)
    \/ LoadResume(1)
    \/ ExpandBegin(1)
    \/ ExpandResume(1)

SpecExpand == InitExpand /\ [][NextExpand]_vars

\* ====================================================== TileGeometryCreator
\* A decoded tile holds techniques, geometries (with their groups), text path
\* geometries and text geometries.  A tile holds the objects and the text
\* elements built from it.  Every call of the creator runs to completion: one
\* step of the model is one call.

\* ----------------------------------------------------------- geometry kinds
\* A technique's `kind` is undefined, a string, an array, or a GeometryKindSet.
KindString(s) == [string |-> s]
KindArray(a) == [array |-> a]
KindSet(S) == [set |-> S]
isUndefined(v) == "undefined" \in DOMAIN v

\* new Set(iterable) holds the elements of the iterable; the elements of a
\* string are its characters.
Characters(s) ==
    CASE s = "road" -> {"r", "o", "a", "d"}
      [] s = "water" -> {"w", "a", "t", "e", "r"}
      [] s = "" -> {}
Elements(a) == {a[i] : i \in 1..Len(a)}

\* "Turn technique.kind from the style into a GeometryKindSet."
normalizedKind(kind) ==
    IF "array" \in DOMAIN kind THEN KindSet(Elements(kind.array))
    ELSE IF "string" \in DOMAIN kind THEN KindSet(Characters(kind.string))
    ELSE kind

\* GeometryKindSet.hasOrIntersects: a set argument is matched when it shares a
\* kind with this set, a single kind when this set holds it.
hasOrIntersects(kinds, kind) ==
    IF "set" \in DOMAIN kind THEN kinds.set \cap kind.set # {}
    ELSE IF "string" \in DOMAIN kind THEN kind.string \in kinds.set
    ELSE FALSE

\* technique.enabled is undefined, true or false.
Enabled(b) == IF b THEN "true" ELSE "false"

\* Mutant: the `enabled !== undefined` guard is missing.
initTechnique_NoGuard(technique, enabledKinds, disabledKinds) ==
    LET kind == normalizedKind(technique.kind)
    IN  IF isUndefined(kind) \/ ("set" \in DOMAIN kind /\ kind.set = {})
        THEN [technique EXCEPT !.kind = kind, !.enabled = "true"]
        ELSE [technique EXCEPT !.kind = kind, !.enabled = Enabled(
                \/ ~(~isUndefined(disabledKinds) /\ hasOrIntersects(disabledKinds, kind))
                \/ (~isUndefined(enabledKinds) /\ hasOrIntersects(enabledKinds, kind)))]

\* The body of the loop of initDecodedTile for one technique.
initTechnique(technique, enabledKinds, disabledKinds) ==
    IF technique.enabled # "undefined"
    THEN technique
    ELSE LET kind == normalizedKind(technique.kind)
         IN  IF isUndefined(kind) \/ ("set" \in DOMAIN kind /\ kind.set = {})
             THEN [technique EXCEPT !.kind = kind, !.enabled = "true"]
             ELSE [technique EXCEPT !.kind = kind, !.enabled = Enabled(
                     \/ ~(~isUndefined(disabledKinds) /\ hasOrIntersects(disabledKinds, kind))
                     \/ (~isUndefined(enabledKinds) /\ hasOrIntersects(enabledKinds, kind)))]

initDecodedTile(decodedTile, enabledKinds, disabledKinds) ==
    [decodedTile EXCEPT !.techniques =
        [i \in 1..Len(@) |-> initTechnique(@[i], enabledKinds, disabledKinds)]]

\* ------------------------------------------------------------- decoded tiles
\* A technique of a decoded tile; `id` is its identity in the style set.
\* A number where a property may also be undefined.
Number(n) == [number |-> n]

Technique(id, name, kind) ==
    [id |-> id, name |-> name, kind |-> kind, enabled |-> "undefined", priority |-> 0,
     color |-> Undefined, backgroundColor |-> Undefined, renderOrder |-> 0,
     secondaryWidth |-> FALSE, secondaryRenderOrder |-> Undefined, depthPrePass |-> FALSE]

\* A group of a geometry: a range of the index buffer drawn with one technique.
\* renderOrderOffset 0 stands for an offset that is not given.
Group(technique, start, count) ==
    [technique |-> technique, start |-> start, count |-> count, created |-> FALSE,
     renderOrderOffset |-> 0]

\* edgeIndex is the number of edge index buffers of the geometry (0: none).
Geometry(groups, edgeIndex) == [groups |-> groups, edgeIndex |-> edgeIndex]

DecodedTile(techniques, geometries, textPathGeometries, textGeometries) ==
    [techniques |-> techniques, geometries |-> geometries,
     textPathGeometries |-> textPathGeometries, textGeometries |-> textGeometries]

\* A tile with its data source and its map view; nothing built yet.
Tile(tileKey, dataSource, mapView) ==
    [tileKey |-> tileKey, dataSource |-> dataSource, mapView |-> mapView, objects |-> <<>>,
     hasPreparedTextPaths |-> FALSE, preparedTextPaths |-> <<>>, textElements |-> <<>>]

DataSource(name, addTileBackground) == [name |-> name, addTileBackground |-> addTileBackground]

\* Tile.clear(): the tile's objects and text elements are dropped; the prepared
\* text paths are retained.
clear(tile) == [tile EXCEPT !.objects = <<>>, !.textElements = <<>>]

isTextTechnique(technique) == technique.name = "text"
isFillTechnique(technique) == technique.name = "fill"
isSolidLineTechnique(technique) == technique.name = "solid-line"
isExtrudedPolygonTechnique(technique) == technique.name = "extruded-polygon"
isRenderDepthPrePassEnabled(technique) == technique.depthPrePass

\* getObjectConstructor: text techniques have no object constructor.
hasObjectConstructor(technique) == technique.name \notin {"text"}
\* createMaterial: there is no material for a shader technique without parameters.
hasMaterial(technique) == technique.name \notin {"shader"}

\* An optional technique filter: undefined, or the techniques (by index) it accepts.
NoFilter == Undefined
Filter(accepted) == [accepts |-> accepted]
passes(techniqueFilter, techniqueIndex) ==
    isUndefined(techniqueFilter) \/ techniqueIndex \in techniqueFilter.accepts

\* ------------------------------------------------------- registerTileObject
\* Render orders are counted in units of 0.0000001.
RenderOrderOne == 10000000

registerTileObject(tile, object, geometryKind) ==
    [object EXCEPT !.userData =
        [tileKey |-> tile.tileKey, dataSource |-> tile.dataSource.name, kind |-> geometryKind]]

TileObject(type, geometry, technique, start, count, renderOrder) ==
    [type |-> type, geometry |-> geometry, technique |-> technique, start |-> start,
     count |-> count, renderOrder |-> renderOrder, userData |-> EmptyMap]

\* createBackground: the ground plane, when the data source asks for one.
createBackground(tile) ==
    IF ~tile.dataSource.addTileBackground
    THEN tile
    ELSE [tile EXCEPT !.objects = Append(@,
            registerTileObject(tile, [type |-> "background", userData |-> EmptyMap],
                               KindString("background")))]

\* ------------------------------------------------------------ createObjects
\* Mutant: consecutive groups of the technique are merged without the check
\* that they are contiguous in the index buffer.
RECURSIVE compress_MergesOverGaps(_, _, _, _, _)
compress_MergesOverGaps(groups, techniqueIndex, start, count, groupIndex) ==
    IF /\ groupIndex <= Len(groups)
       /\ groups[groupIndex].technique = techniqueIndex
    THEN compress_MergesOverGaps(groups, techniqueIndex, start,
                                 count + groups[groupIndex].count, groupIndex + 1)
    ELSE [count |-> count, groupIndex |-> groupIndex]

\* "compress consecutive groups": the count of the draw range that starts with
\* `count` indices at `start`, and the index of the first group not merged.
RECURSIVE compress(_, _, _, _, _)
compress(groups, techniqueIndex, start, count, groupIndex) ==
    IF /\ groupIndex <= Len(groups)
       /\ groups[groupIndex].technique = techniqueIndex
       /\ start + count = groups[groupIndex].start
    THEN compress(groups, techniqueIndex, start, count + groups[groupIndex].count, groupIndex + 1)
    ELSE [count |-> count, groupIndex |-> groupIndex]

\* Mutant: the loop over the groups ends at a group that cannot be built.
continue_Stops(groups, groupIndex) == Len(groups) + 1

\* `continue` after a group without object constructor or material: the loop
\* goes on with the group at groupIndex.
continue(groups, groupIndex) == groupIndex

\* Mutant: an edge object gets the render order of its parent.
edgeRenderOrder_OfParent(renderOrder) == renderOrder

\* "Set the correct render order": object.renderOrder + 0.1.
edgeRenderOrder(renderOrder) == renderOrder + RenderOrderOne \div 10

\* The objects pushed for one draw range, in the order they are pushed.
groupObjects(tile, g, srcGeometry, techniqueIndex, technique, group, count) ==
    LET renderOrder == technique.renderOrder * RenderOrderOne
                       + group.renderOrderOffset * RenderOrderOne
        object == TileObject("object", g, techniqueIndex, group.start, count, renderOrder)
        hasExtrudedOutlines == isExtrudedPolygonTechnique(technique) /\ srcGeometry.edgeIndex # 0
        hasFillOutlines == isFillTechnique(technique) /\ srcGeometry.edgeIndex # 0
        hasSolidLinesOutlines == isSolidLineTechnique(technique) /\ technique.secondaryWidth
        depthPassMesh == [object EXCEPT !.type = "depthPrePass"]
        edgeObj == [object EXCEPT !.type = "edge", !.renderOrder = edgeRenderOrder(renderOrder)]
        fillOutlineObj == [object EXCEPT !.type = "outline",
                                         !.renderOrder = edgeRenderOrder(renderOrder)]
        outlineObj == [object EXCEPT !.type = "secondaryOutline", !.renderOrder =
                          (IF ~isUndefined(technique.secondaryRenderOrder)
                           THEN technique.secondaryRenderOrder.number * RenderOrderOne
                           ELSE technique.renderOrder * RenderOrderOne - 1)
                          + group.renderOrderOffset * RenderOrderOne]
    IN  (IF isExtrudedPolygonTechnique(technique) /\ isRenderDepthPrePassEnabled(technique)
         THEN <<depthPassMesh>> ELSE <<>>)
        \o << registerTileObject(tile, object, technique.kind) >>
        \o (IF hasExtrudedOutlines
            THEN << registerTileObject(tile, edgeObj, technique.kind) >> ELSE <<>>)
        \o (IF hasFillOutlines
            THEN [i \in 1..srcGeometry.edgeIndex |->
                     registerTileObject(tile, fillOutlineObj, technique.kind)]
            ELSE <<>>)
        \o (IF hasSolidLinesOutlines
            THEN << registerTileObject(tile, outlineObj, technique.kind) >> ELSE <<>>)

\* The loop over the groups of geometry g, from groupIndex on: st holds the
\* tile and the groups of the geometry.
RECURSIVE createGroupObjects(_, _, _, _, _, _)
createGroupObjects(st, g, srcGeometry, techniques, techniqueFilter, groupIndex) ==
    IF groupIndex > Len(st.groups)
    THEN st
    ELSE LET group == st.groups[groupIndex]
             techniqueIndex == group.technique
             technique == techniques[techniqueIndex]
         IN  IF \/ group.created
                \/ technique.enabled # "true"
                \/ ~passes(techniqueFilter, techniqueIndex)
             THEN createGroupObjects(st, g, srcGeometry, techniques, techniqueFilter, groupIndex + 1)
             ELSE LET marked == [st.groups EXCEPT ![groupIndex].created = TRUE]
                      c == compress(st.groups, techniqueIndex, group.start, group.count,
                                    groupIndex + 1)
                  IN  IF ~hasObjectConstructor(technique) \/ ~hasMaterial(technique)
                      THEN createGroupObjects([st EXCEPT !.groups = marked], g, srcGeometry,
                                              techniques, techniqueFilter,
                                              continue(st.groups, c.groupIndex))
                      ELSE createGroupObjects(
                              [groups |-> marked,
                               tile |-> [st.tile EXCEPT !.objects = @ \o
                                           groupObjects(st.tile, g, srcGeometry, techniqueIndex,
                                                        technique, group, c.count)]],
                              g, srcGeometry, techniques, techniqueFilter, c.groupIndex)

\* The loop over the geometries of the decoded tile, from geometry g on.
RECURSIVE createObjectsFrom(_, _, _)
createObjectsFrom(st, techniqueFilter, g) ==
    IF g > Len(st.decodedTile.geometries)
    THEN st
    ELSE LET srcGeometry == st.decodedTile.geometries[g]
             done == createGroupObjects([groups |-> srcGeometry.groups, tile |-> st.tile], g,
                                        srcGeometry, st.decodedTile.techniques, techniqueFilter, 1)
         IN  createObjectsFrom(
                [tile |-> done.tile,
                 decodedTile |-> [st.decodedTile EXCEPT !.geometries[g].groups = done.groups]],
                techniqueFilter, g + 1)

\* createObjects: st holds the tile and the decoded tile.
createObjects(st, techniqueFilter) == createObjectsFrom(st, techniqueFilter, 1)

\* ---------------------------------------------------------------- numbers
\* Priorities are rational numbers num/den with den > 0.
Rational(num, den) == [num |-> num, den |-> den]
RatAdd(p, q) == Rational(p.num * q.den + q.num * p.den, p.den * q.den)
RatMul(p, q) == Rational(p.num * q.num, p.den * q.den)
RatLess(p, q) == p.num * q.den < q.num * p.den
RatEqual(p, q) == p.num * q.den = q.num * p.den

\* "Gives TextElements with longer paths a higher priority": 0.1.
SORT_WEIGHT_PATH_LENGTH == Rational(1, 10)

\* Zoom levels are counted in halves of a level: Math.floor gives whole levels.
ZoomLevelOne == 2
Floor(zoomLevel) == zoomLevel \div ZoomLevelOne

\* --------------------------------------------------------- prepareTextPaths
Point(x, y) == [x |-> x, y |-> y]

\* A text path; `path` is its sequence of vertices (x, y, z triples in the
\* code, z is not looked at).
TextPath(path, text, pathLengthSqr, technique, featureId) ==
    [path |-> path, text |-> text, pathLengthSqr |-> pathLengthSqr,
     technique |-> technique, featureId |-> featureId]

\* The direction from vertex k to vertex k+1.  The code normalizes it, which
\* scales both products below by a positive factor (or leaves the zero vector).
Tangent(path, k) == Point(path[k + 1].x - path[k].x, path[k + 1].y - path[k].y)

Abs(n) == IF n < 0 THEN 0 - n ELSE n

\* |atan2(cross, dot)| > PI / 8 for the tangents before and after a vertex:
\* for dot > 0 this is |cross| / dot > tan(PI / 8) = sqrt(2) - 1, which is
\* (|cross| + dot)^2 > 2 dot^2.
exceedsMaxCornerAngle(previousTangent, tangent) ==
    LET cross == previousTangent.x * tangent.y - tangent.x * previousTangent.y
        dot == tangent.x * previousTangent.x + tangent.y * previousTangent.y
    IN  IF dot > 0
        THEN (Abs(cross) + dot) * (Abs(cross) + dot) > 2 * dot * dot
        ELSE cross # 0 \/ dot < 0

\* The vertices (numbered from 1) in the inside of the path with a sharp corner.
Corners(path) ==
    {v \in 2..(Len(path) - 1) : exceedsMaxCornerAngle(Tangent(path, v - 1), Tangent(path, v))}

\* splitIndex: the offset of the first sharp corner in the flat array of
\* triples, or -1.
splitIndex(path) ==
    IF Corners(path) = {}
    THEN -1
    ELSE 3 * ((CHOOSE v \in Corners(path) : \A u \in Corners(path) : v <= u) - 1)

\* path.slice(from, to) of the flat array, in vertices.
slice(path, from, to) == SubSeq(path, from \div 3 + 1, to \div 3)

\* Mutant: the second part starts after the corner vertex.
splitPath_DropsCorner(textPath) ==
    LET i == splitIndex(textPath.path)
    IN  [first |-> [textPath EXCEPT !.path = slice(textPath.path, 0, i + 3)],
         second |-> [textPath EXCEPT !.path = slice(textPath.path, i + 3, 3 * Len(textPath.path))]]

\* Mutant: the second part is the path that was cut.
splitPath_KeepsWhole(textPath) ==
    LET i == splitIndex(textPath.path)
    IN  [first |-> [textPath EXCEPT !.path = slice(textPath.path, 0, i + 3)],
         second |-> textPath]

\* The two parts of a path that is split at splitIndex.
splitPath(textPath) ==
    LET i == splitIndex(textPath.path)
    IN  [first |-> [textPath EXCEPT !.path = slice(textPath.path, 0, i + 3)],
         second |-> [textPath EXCEPT !.path = slice(textPath.path, i, 3 * Len(textPath.path))]]

\* One iteration of the while loop over the work list `work` (newPaths): the
\* next path is popped from its end; a path of another technique is dropped,
\* a path with a corner is cut, its first part is processed and its second
\* part goes back to the work list.
splitStep(processed, work, techniques, textFilter) ==
    LET textPath == Last(work)
        rest == Front(work)
    IN  IF \/ ~isTextTechnique(techniques[textPath.technique])
           \/ ~passes(textFilter, textPath.technique)
        THEN [processedPaths |-> processed, newPaths |-> rest]
        ELSE IF splitIndex(textPath.path) > 0
        THEN [processedPaths |-> Append(processed, splitPath(textPath).first),
              newPaths |-> Append(rest, splitPath(textPath).second)]
        ELSE [processedPaths |-> Append(processed, textPath), newPaths |-> rest]

\* The while loop: iterations until the work list is empty.
RECURSIVE splitPaths(_, _, _, _)
splitPaths(processed, work, techniques, textFilter) ==
    IF work = <<>>
    THEN processed
    ELSE LET step == splitStep(processed, work, techniques, textFilter)
         IN  splitPaths(step.processedPaths, step.newPaths, techniques, textFilter)

prepareTextPaths(processed, decodedTile, textFilter) ==
    splitPaths(processed, decodedTile.textPathGeometries, decodedTile.techniques, textFilter)

\* ------------------------------------------------------------ getRenderStyle
\* The world the creator works on: the variables of the model as one record.
World ==
    [tiles |-> tiles, decodedTiles |-> decodedTiles, mapViews |-> mapViews,
     renderStyles |-> renderStyles, m_colorMap |-> m_colorMap,
     m_maxPathLengthSqr |-> m_maxPathLengthSqr]

MapView(zoomLevel) == [zoomLevel |-> zoomLevel, textRenderStyleCache |-> EmptyMap]

Color(hex) == [hex |-> hex]
\* The colour of the default style of the text renderer.
DefaultColor == Color("default")

\* The cache key: data source name, technique identity and quantized zoom level.
computeStyleCacheId(datasourceName, technique, zoomLevel) ==
    <<datasourceName, technique.id, Floor(zoomLevel)>>

getOptionValue(value, fallback) == IF isUndefined(value) THEN fallback ELSE value
\* Technique properties do not depend on the zoom level here.
getPropertyValue(property, level) == property

\* Mutant: the entry is not stored.
MapSet_Forgets(map, key, value) == map

\* Map.set
MapSet(map, key, value) == [k \in DOMAIN map \cup {key} |-> IF k = key THEN value ELSE map[k]]

\* getRenderStyle for tile t: the world after the call, and the style returned
\* (a TextRenderStyle instance is its index in renderStyles).
getRenderStyle(w, t, technique) ==
    LET tile == w.tiles[t]
        mapView == w.mapViews[tile.mapView]
        cacheId == computeStyleCacheId(tile.dataSource.name, technique, mapView.zoomLevel)
    IN  IF cacheId \in DOMAIN mapView.textRenderStyleCache
        THEN [w |-> w, renderStyle |-> mapView.textRenderStyleCache[cacheId]]
        ELSE LET hexColor == getPropertyValue(technique.color, Floor(mapView.zoomLevel))
                 hexBgColor == getPropertyValue(technique.backgroundColor, Floor(mapView.zoomLevel))
                 map1 == IF isUndefined(hexColor) THEN w.m_colorMap
                         ELSE MapSet(w.m_colorMap, <<cacheId, "">>, hexColor)
                 map2 == IF isUndefined(hexBgColor) THEN map1
                         ELSE MapSet(map1, <<cacheId, "_bg">>, hexBgColor)
                 renderParams ==
                     [color |-> getOptionValue(Lookup(map2, <<cacheId, "">>), DefaultColor),
                      backgroundColor |-> getOptionValue(Lookup(map2, <<cacheId, "_bg">>), DefaultColor)]
                 renderStyle == Len(w.renderStyles) + 1
             IN  [w |-> [w EXCEPT !.renderStyles = Append(@, renderParams),
                                  !.m_colorMap = map2,
                                  !.mapViews[tile.mapView].textRenderStyleCache =
                                      MapSet(@, cacheId, renderStyle)],
                  renderStyle |-> renderStyle]

\* -------------------------------------------------------- createTextElements
\* Tile.addTextElement
addTextElement(tile, textElement) == [tile EXCEPT !.textElements = Append(@, textElement)]

TextElement(type, text, points, renderStyle, priority, featureId) ==
    [type |-> type, text |-> text, points |-> points, renderStyle |-> renderStyle,
     priority |-> priority, featureId |-> featureId]

\* The loop that raises m_maxPathLengthSqr to the longest prepared text path
\* (-1 is the undefined m_maxPathLengthSqr: every length is greater).
longestPathLengthSqr(maxPathLengthSqr, preparedTextPaths, techniques) ==
    LET lengths == {maxPathLengthSqr} \cup
                   {preparedTextPaths[n].pathLengthSqr : n \in
                       {m \in 1..Len(preparedTextPaths) :
                           isTextTechnique(techniques[preparedTextPaths[m].technique])}}
    IN  CHOOSE l \in lengths : \A k \in lengths : k <= l

\* Mutant: the path length is left out of the priority.
pathPriority_NoBonus(technique, textPath, maxPathLengthSqr) ==
    Rational(technique.priority, 1)

\* "Make sorting stable and make pathLengthSqr a differentiator for placement."
pathPriority(technique, textPath, maxPathLengthSqr) ==
    RatAdd(Rational(technique.priority, 1),
           IF maxPathLengthSqr > 0
           THEN RatMul(SORT_WEIGHT_PATH_LENGTH, Rational(textPath.pathLengthSqr, maxPathLengthSqr))
           ELSE Rational(0, 1))

\* The loop over the prepared text paths of tile t, from path n on.
RECURSIVE addPathElements(_, _, _, _)
addPathElements(w, t, textFilter, n) ==
    IF n > Len(w.tiles[t].preparedTextPaths)
    THEN w
    ELSE LET textPath == w.tiles[t].preparedTextPaths[n]
             technique == w.decodedTiles[t].techniques[textPath.technique]
         IN  IF ~isTextTechnique(technique) \/ ~passes(textFilter, textPath.technique)
             THEN addPathElements(w, t, textFilter, n + 1)
             ELSE LET style == getRenderStyle(w, t, technique)
                      textElement == TextElement("path", textPath.text, textPath.path,
                                         style.renderStyle,
                                         pathPriority(technique, textPath, w.m_maxPathLengthSqr),
                                         textPath.featureId)
                  IN  addPathElements([style.w EXCEPT !.tiles[t] = addTextElement(@, textElement)],
                                      t, textFilter, n + 1)

\* A text geometry: positions and, per position, an index into the string
\* catalog.  technique 0 stands for an undefined technique; an entry of the
\* catalog is undefined or a label.
TextGeometry(technique, stringCatalog, texts, positions, featureId) ==
    [technique |-> technique, stringCatalog |-> stringCatalog, texts |-> texts,
     positions |-> positions, featureId |-> featureId]
Catalog(entries) == [entries |-> entries]
Label(s) == [label |-> s]
At(s, i) == IF i \in 1..Len(s) THEN s[i] ELSE Undefined

\* Mutant: a missing catalog entry ends the loop over the positions.
catalogLabel_StopsAtMissing(text, i) ==
    IF \E j \in 1..i : j > Len(text.texts) \/ isUndefined(At(text.stringCatalog.entries, text.texts[j]))
    THEN Undefined
    ELSE At(text.stringCatalog.entries, text.texts[i])

\* text.stringCatalog[text.texts[i]]
catalogLabel(text, i) ==
    IF i \in 1..Len(text.texts) THEN At(text.stringCatalog.entries, text.texts[i]) ELSE Undefined

\* The loop over the text geometries of tile t, from position i of geometry g on.
RECURSIVE addPointElements(_, _, _, _, _)
addPointElements(w, t, textFilter, g, i) ==
    IF g > Len(w.decodedTiles[t].textGeometries)
    THEN w
    ELSE LET text == w.decodedTiles[t].textGeometries[g]
             technique == w.decodedTiles[t].techniques[text.technique]
         IN  IF \/ text.technique = 0
                \/ isUndefined(text.stringCatalog)
                \/ ~isTextTechnique(technique)
                \/ ~passes(textFilter, text.technique)
                \/ i > Len(text.positions)
             THEN addPointElements(w, t, textFilter, g + 1, 1)
             ELSE IF isUndefined(catalogLabel(text, i))
             THEN addPointElements(w, t, textFilter, g, i + 1)
             ELSE LET style == getRenderStyle(w, t, technique)
                      textElement == TextElement("point", catalogLabel(text, i).label,
                                         <<text.positions[i]>>, style.renderStyle,
                                         Rational(technique.priority, 1), text.featureId)
                  IN  addPointElements([style.w EXCEPT !.tiles[t] = addTextElement(@, textElement)],
                                       t, textFilter, g, i + 1)

createTextElements(w, t, textFilter) ==
    LET w1 == IF w.tiles[t].hasPreparedTextPaths
              THEN w
              ELSE [w EXCEPT !.tiles[t].hasPreparedTextPaths = TRUE,
                             !.tiles[t].preparedTextPaths = <<>>,
                             !.m_maxPathLengthSqr = 0]
        w2 == [w1 EXCEPT !.tiles[t].preparedTextPaths =
                  prepareTextPaths(@, w.decodedTiles[t], textFilter)]
        w3 == [w2 EXCEPT !.m_maxPathLengthSqr =
                  longestPathLengthSqr(@, w2.tiles[t].preparedTextPaths,
                                       w.decodedTiles[t].techniques)]
    IN  addPointElements(addPathElements(w3, t, textFilter, 1), t, textFilter, 1, 1)

\* ------------------------------------------------------- createAllGeometries
\* clear, (points of interest are left to the poi manager,) text elements,
\* background, objects.
createAllGeometries(w, t) ==
    LET w1 == [w EXCEPT !.tiles[t] = clear(@)]
        w2 == createTextElements(w1, t, NoFilter)
        w3 == [w2 EXCEPT !.tiles[t] = createBackground(@)]
        built == createObjects([tile |-> w3.tiles[t], decodedTile |-> w3.decodedTiles[t]], NoFilter)
    IN  [w3 EXCEPT !.tiles[t] = built.tile, !.decodedTiles[t] = built.decodedTile]

\* ------------------------------------------------------------------- calls
\* One step is one call of the creator, or a change of the zoom level of a map
\* view.  lastCall names the call just made, styleLog the styles that the calls
\* of getRenderStyle returned.
NoCall == [fn |-> "none"]

Becomes(w) ==
    /\ tiles' = w.tiles
    /\ decodedTiles' = w.decodedTiles
    /\ mapViews' = w.mapViews
    /\ renderStyles' = w.renderStyles
    /\ m_colorMap' = w.m_colorMap
    /\ m_maxPathLengthSqr' = w.m_maxPathLengthSqr
    /\ UNCHANGED <<workVars, portVars>>

Called(call) ==
    /\ callsLeft > 0
    /\ callsLeft' = callsLeft - 1
    /\ lastCall' = call
    /\ UNCHANGED themeVars

DoInitDecodedTile(t, enabledKinds, disabledKinds) ==
    /\ t \in DOMAIN decodedTiles
    /\ Called([fn |-> "initDecodedTile", tile |-> t, enabledKinds |-> enabledKinds,
               disabledKinds |-> disabledKinds])
    /\ Becomes([World EXCEPT !.decodedTiles[t] = initDecodedTile(@, enabledKinds, disabledKinds)])
    /\ UNCHANGED styleLog

DoCreateAllGeometries(t) ==
    /\ t \in DOMAIN tiles
    /\ Called([fn |-> "createAllGeometries", tile |-> t])
    /\ Becomes(createAllGeometries(World, t))
    /\ UNCHANGED styleLog

DoCreateObjects(t, techniqueFilter) ==
    /\ t \in DOMAIN tiles
    /\ Called([fn |-> "createObjects", tile |-> t, filter |-> techniqueFilter])
    /\ LET built == createObjects([tile |-> tiles[t], decodedTile |-> decodedTiles[t]],
                                  techniqueFilter)
       IN  Becomes([World EXCEPT !.tiles[t] = built.tile, !.decodedTiles[t] = built.decodedTile])
    /\ UNCHANGED styleLog

DoCreateTextElements(t, textFilter) ==
    /\ t \in DOMAIN tiles
    /\ Called([fn |-> "createTextElements", tile |-> t, filter |-> textFilter])
    /\ Becomes(createTextElements(World, t, textFilter))
    /\ UNCHANGED styleLog

DoGetRenderStyle(t, techniqueIndex) ==
    /\ t \in DOMAIN tiles
    /\ techniqueIndex \in 1..Len(decodedTiles[t].techniques)
    /\ isTextTechnique(decodedTiles[t].techniques[techniqueIndex])
    /\ Called([fn |-> "getRenderStyle", tile |-> t, technique |-> techniqueIndex])
    /\ LET style == getRenderStyle(World, t, decodedTiles[t].techniques[techniqueIndex])
       IN  /\ Becomes(style.w)
           /\ styleLog' = styleLog \cup
                  {[mapView |-> tiles[t].mapView, dataSource |-> tiles[t].dataSource.name,
                    technique |-> decodedTiles[t].techniques[techniqueIndex].id,
                    zoomLevel |-> mapViews[tiles[t].mapView].zoomLevel,
                    renderStyle |-> style.renderStyle]}

\* The user zooms: the zoom level of map view m becomes z.
SetZoomLevel(m, z) ==
    /\ m \in DOMAIN mapViews
    /\ mapViews[m].zoomLevel # z
    /\ Called([fn |-> "zoom", mapView |-> m])
    /\ mapViews' = [mapViews EXCEPT ![m].zoomLevel = z]
    /\ UNCHANGED <<tiles, decodedTiles, renderStyles, m_colorMap, m_maxPathLengthSqr, styleLog>>
    /\ UNCHANGED <<workVars, portVars>>

\* ------------------------------------------- initial states: technique kinds
\* One decoded tile "T" with two techniques of every form of `kind`; the
\* creator is asked to enable and disable every mix of kinds.
KindInputs ==
    { Undefined, KindString(""), KindString("road"), KindArray(<<>>), KindArray(<<"road">>),
      KindArray(<<"water", "road">>), KindSet({"road"}), KindSet({}) }
KindSetInputs ==
    { Undefined, KindSet({}), KindSet({"road"}), KindSet({"water"}), KindSet({"road", "water"}) }

NoThemes ==
    /\ heap = <<>>
    /\ arrays = <<>>
    /\ input = [heap |-> <<>>, arrays |-> <<>>]
    /\ calls = <<>>
    /\ task = [t \in Tasks |-> IdleTask]
    /\ running = 0

\* Nothing is cached and no call is made yet.
FreshCreator ==
    /\ renderStyles = <<>>
    /\ m_colorMap = EmptyMap
    /\ m_maxPathLengthSqr = NoNumber
    /\ callsLeft = MaxCalls
    /\ lastCall = NoCall
    /\ styleLog = {}

InitKinds ==
    /\ NoThemes
    /\ FreshCreator
    /\ NoWork
    /\ NoPort
    /\ \E kind1 \in KindInputs, kind2 \in KindInputs :
          decodedTiles = [t \in {"T"} |->
              DecodedTile(<<Technique(1, "fill", kind1), Technique(2, "solid-line", kind2)>>,
                          <<>>, <<>>, <<>>)]
    /\ tiles = EmptyMap
    /\ mapViews = EmptyMap

NextKinds ==
    \E enabledKinds \in KindSetInputs, disabledKinds \in KindSetInputs :
        DoInitDecodedTile("T", enabledKinds, disabledKinds)

SpecKinds == InitKinds /\ [][NextKinds]_vars

\* ---------------------------------------------- initial states: tile objects
\* The techniques of the object builds: a fill, a solid line with outline, a
\* shader technique without material, an extruded polygon with depth pre-pass,
\* a text technique, and a solid line whose outline has a render order of its
\* own.
ObjectTechniques ==
    << Technique(1, "fill", KindArray(<<"water">>)),
       [Technique(2, "solid-line", KindArray(<<"road">>)) EXCEPT !.secondaryWidth = TRUE,
                                                                   !.renderOrder = 2],
       Technique(3, "shader", Undefined),
       [Technique(4, "extruded-polygon", KindString("")) EXCEPT !.depthPrePass = TRUE,
                                                                  !.renderOrder = 1],
       [Technique(5, "text", Undefined) EXCEPT !.color = Color("#f00")],
       [Technique(6, "solid-line", Undefined) EXCEPT !.secondaryWidth = TRUE,
                                                      !.secondaryRenderOrder = Number(5),
                                                      !.renderOrder = 3] >>

\* The index ranges of the groups: group n has GroupCount(n) indices and starts
\* where the group before it ends, or GroupGap indices later; the first starts
\* at index 0.
GroupGap == 3
GroupCount(n) == IF n % 2 = 1 THEN 10 ELSE 5
End(groups) == IF groups = <<>> THEN 0 ELSE Last(groups).start + Last(groups).count

RECURSIVE GroupInputs(_)
GroupInputs(n) ==
    IF n = 0
    THEN {<<>>}
    ELSE { Append(groups, Group(technique, End(groups) + gap, GroupCount(n))) :
             groups \in GroupInputs(n - 1), technique \in 1..3,
             gap \in (IF n = 1 THEN {0} ELSE {0, GroupGap}) }

\* The groups with render order offsets 0, 1, 2, ...
WithOffsets(groups) ==
    [n \in 1..Len(groups) |-> [groups[n] EXCEPT !.renderOrderOffset = n - 1]]

\* The groups of a geometry: every run of n groups without render order
\* offsets, and the pairs of groups also with the offsets 0 and 1.
OffsetInputs(n) ==
    GroupInputs(n) \cup (IF n = 2 THEN {WithOffsets(groups) : groups \in GroupInputs(n)} ELSE {})

\* The text of the object builds: one straight text path and one point label.
StraightPath == <<Point(0, 0), Point(4, 0), Point(8, 0)>>
ObjectTextPaths == << TextPath(StraightPath, "Main Street", 64, 5, 1) >>
ObjectTexts == << TextGeometry(5, Catalog(<<Label("Berlin")>>), <<1>>, <<Point(1, 1)>>, 2) >>

\* The zoom level 14 of the map view.
DefaultZoomLevel == 14 * ZoomLevelOne

InitObjects ==
    /\ NoThemes
    /\ FreshCreator
    /\ NoWork
    /\ NoPort
    /\ \E n \in 1..MaxGroups, addTileBackground \in BOOLEAN :
          /\ \E groups \in OffsetInputs(n) :
                decodedTiles = [t \in {"T"} |->
                    DecodedTile(ObjectTechniques,
                                << Geometry(groups, 0),
                                   Geometry(<<Group(4, 0, 6), Group(5, 6, 6), Group(1, 12, 6),
                                              Group(6, 18, 6)>>, 2) >>,
                                ObjectTextPaths, ObjectTexts)]
          /\ tiles = [t \in {"T"} |-> Tile(t, DataSource("omv", addTileBackground), "mv")]
    /\ mapViews = [m \in {"mv"} |-> MapView(DefaultZoomLevel)]

ObjectKinds == { <<Undefined, Undefined>>, <<Undefined, KindSet({"road"})>> }
ObjectFilters == { NoFilter, Filter({1}), Filter({2, 3, 4}) }

NextObjects ==
    \/ \E kinds \in ObjectKinds : DoInitDecodedTile("T", kinds[1], kinds[2])
    \/ \E techniqueFilter \in ObjectFilters : DoCreateObjects("T", techniqueFilter)
    \/ DoCreateAllGeometries("T")

SpecObjects == InitObjects /\ [][NextObjects]_vars

\* ------------------------------------------------- initial states: tile text
\* The techniques of the text builds: three text techniques, two of them with
\* the same priority, and a fill.
TextTechniques ==
    << [Technique(1, "text", Undefined) EXCEPT !.priority = 1, !.color = Color("#f00")],
       [Technique(2, "text", Undefined) EXCEPT !.priority = 1],
       [Technique(3, "text", Undefined) EXCEPT !.priority = 2],
       Technique(4, "fill", Undefined) >>

\* The vertices of the text paths: the third lies a little off the line
\* through the first two, so that a path turns by less than PI / 8 there, and
\* by more wherever it turns back.
PathPoints == {Point(0, 0), Point(4, 0), Point(8, 1)}

RECURSIVE PathInputs(_)
PathInputs(n) ==
    IF n = 0
    THEN {<<>>}
    ELSE {Append(path, point) : path \in PathInputs(n - 1), point \in PathPoints}

\* A path with a right angle at its second vertex.
BentPath == <<Point(4, 4), Point(4, 0), Point(0, 0)>>

\* Text paths of every shape, next to a bent path of another technique.
ShapeInputs ==
    { << TextPath(path, "Elm Street", 64, 1, 1), TextPath(BentPath, "Oak Street", 32, 2, 2) >> :
        path \in UNION {PathInputs(n) : n \in 1..MaxPoints} }

\* Straight text paths of several lengths and techniques.
PathLengths == {2, 3, 4}
StraightTextPath(length, technique, featureId) ==
    TextPath(<<Point(0, 0), Point(length, 0)>>, "Main Street", length * length, technique, featureId)
LengthInputs ==
    { << StraightTextPath(l1, t1, 1), StraightTextPath(l2, t2, 2), StraightTextPath(4, 2, 3) >> :
        l1 \in PathLengths, l2 \in PathLengths, t1 \in 1..3, t2 \in 1..3 }

\* Point labels: a catalog of two labels, and positions that name entry 1, 2
\* or the missing entry 3; next to them a text geometry without technique,
\* one without catalog, one of the fill technique and one of another text
\* technique.
StringCatalog == Catalog(<<Label("Berlin"), Label("Paris")>>)
RECURSIVE TextsInputs(_)
TextsInputs(n) ==
    IF n = 0
    THEN {<<>>}
    ELSE {Append(texts, entry) : texts \in TextsInputs(n - 1), entry \in 1..3}
Positions(n) == [i \in 1..n |-> Point(i, i)]
PointInputs ==
    { << TextGeometry(1, StringCatalog, texts, Positions(Len(texts)), 1),
         TextGeometry(0, StringCatalog, <<1>>, <<Point(0, 1)>>, 2),
         TextGeometry(1, Undefined, <<1>>, <<Point(0, 2)>>, 3),
         TextGeometry(4, StringCatalog, <<1>>, <<Point(0, 3)>>, 4),
         TextGeometry(2, StringCatalog, <<3, 2>>, <<Point(0, 4), Point(0, 5)>>, 5) >> :
        texts \in UNION {TextsInputs(n) : n \in 0..MaxPoints} }

InitText ==
    /\ NoThemes
    /\ FreshCreator
    /\ NoWork
    /\ NoPort
    /\ \E textPathGeometries \in ShapeInputs \cup LengthInputs \cup {<<>>} :
          \E textGeometries \in (IF textPathGeometries = <<>> THEN PointInputs ELSE {<<>>}) :
              decodedTiles = [t \in {"T"} |->
                  DecodedTile(TextTechniques, <<>>, textPathGeometries, textGeometries)]
    /\ tiles = [t \in {"T"} |-> Tile(t, DataSource("omv", TRUE), "mv")]
    /\ mapViews = [m \in {"mv"} |-> MapView(DefaultZoomLevel)]

TextFilters == { NoFilter, Filter({1}), Filter({2, 3}) }

NextText ==
    \/ \E textFilter \in TextFilters : DoCreateTextElements("T", textFilter)
    \/ DoCreateAllGeometries("T")

SpecText == InitText /\ [][NextText]_vars

\* ------------------------------------- prepareTextPaths, iteration by iteration
\* prepareTextPaths is entered: the work list is a copy of the text paths of
\* the decoded tile, the processed paths are the array that was passed in.
BeginPrepareTextPaths(t, textFilter) ==
    /\ lastCall = NoCall
    /\ t \in DOMAIN decodedTiles
    /\ lastCall' = [fn |-> "prepareTextPaths", tile |-> t, filter |-> textFilter]
    /\ newPaths' = decodedTiles[t].textPathGeometries
    /\ processedPaths' = tiles[t].preparedTextPaths
    /\ UNCHANGED <<decodedTiles, tiles, mapViews, renderStyles, m_colorMap,
                   m_maxPathLengthSqr, callsLeft, styleLog>>
    /\ UNCHANGED <<themeVars, portVars>>

\* One iteration of the while loop of prepareTextPaths.
PrepareTextPathsStep ==
    /\ lastCall.fn = "prepareTextPaths"
    /\ newPaths # <<>>
    /\ LET step == splitStep(processedPaths, newPaths, decodedTiles[lastCall.tile].techniques,
                             lastCall.filter)
       IN  /\ newPaths' = step.newPaths
           /\ processedPaths' = step.processedPaths
    /\ UNCHANGED <<tileVars, themeVars, portVars>>

InitSplit ==
    /\ NoThemes
    /\ FreshCreator
    /\ NoWork
    /\ NoPort
    /\ \E textPathGeometries \in ShapeInputs :
          decodedTiles = [t \in {"T"} |->
              DecodedTile(TextTechniques, <<>>, textPathGeometries, <<>>)]
    /\ tiles = [t \in {"T"} |-> Tile(t, DataSource("omv", TRUE), "mv")]
    /\ mapViews = [m \in {"mv"} |-> MapView(DefaultZoomLevel)]

NextSplit ==
    \/ \E textFilter \in TextFilters : BeginPrepareTextPaths("T", textFilter)
    \/ PrepareTextPathsStep

\* The loop runs in one synchronous call: an iteration that can be taken is
\* taken.
SpecSplit == InitSplit /\ [][NextSplit]_vars /\ WF_vars(NextSplit)

\* ------------------------------------------- initial states: render styles
\* Two map views that show the data source "omv": tiles "T" and "U" in the
\* first, tile "V" in the second.  The decoded tiles have the same two text
\* techniques; the second declares no colour in the first map view, and the
\* theme of the second map view gives both techniques a colour of its own.
\* The zoom levels are 14, 14.5 and 15.
StyleTechniques(color1, color2) ==
    << [Technique(1, "text", Undefined) EXCEPT !.priority = 1, !.color = color1],
       [Technique(2, "text", Undefined) EXCEPT !.priority = 1, !.color = color2] >>
ZoomInputs == {14 * ZoomLevelOne, 14 * ZoomLevelOne + 1, 15 * ZoomLevelOne}

\* The streets of the tiles: the longest street of "U" is longer than the
\* streets of "T"; "V" has none.
StylePaths(t) ==
    IF t = "T" THEN << StraightTextPath(2, 1, 1), StraightTextPath(3, 2, 2) >>
    ELSE IF t = "U" THEN << StraightTextPath(4, 1, 1) >>
    ELSE <<>>

InitStyle ==
    /\ NoThemes
    /\ FreshCreator
    /\ NoWork
    /\ NoPort
    /\ decodedTiles = [t \in {"T", "U", "V"} |->
          DecodedTile(IF t = "V" THEN StyleTechniques(Color("#00f"), Color("#0f0"))
                                 ELSE StyleTechniques(Color("#f00"), Undefined),
                      <<>>, StylePaths(t),
                      << TextGeometry(1, Catalog(<<Label("Berlin")>>), <<1>>, <<Point(1, 1)>>, 3) >>)]
    /\ tiles = [t \in {"T", "U", "V"} |->
          Tile(t, DataSource("omv", TRUE), IF t = "V" THEN "mv2" ELSE "mv")]
    /\ \E z \in ZoomInputs : mapViews = [m \in {"mv", "mv2"} |-> MapView(z)]

StyleFilters == { NoFilter, Filter({1}), Filter({2}) }

NextStyle ==
    \/ \E t \in {"T", "U", "V"}, techniqueIndex \in 1..2 : DoGetRenderStyle(t, techniqueIndex)
    \/ \E t \in {"T", "U", "V"}, textFilter \in StyleFilters : DoCreateTextElements(t, textFilter)
    \/ \E m \in {"mv", "mv2"}, z \in ZoomInputs : SetZoomLevel(m, z)

SpecStyle == InitStyle /\ [][NextStyle]_vars

\* ------------------------------------------------- MessagePortCallAdapter
\* A message: its properties `type` and `requestId` (undefined when the
\* message has none, a number, or a string).
Message(type, requestId) == [type |-> type, requestId |-> requestId]
String(s) == [string |-> s]
MessageEvent(data) == [data |-> data]
isNumber(value) == "number" \in DOMAIN value
\* !value
isFalsy(value) ==
    \/ isUndefined(value)
    \/ isNumber(value) /\ value.number = 0
    \/ "string" \in DOMAIN value /\ value.string = ""

\* A promise is pending or fulfilled with a value; resolving a promise that
\* is not pending does nothing.
PendingPromise == [state |-> "pending"]
resolve(promise, value) ==
    IF promise.state = "pending" THEN [state |-> "fulfilled", value |-> value] ELSE promise

\* Mutant: the next request id stays.
postIncrement_Stays(n) == n

\* this.m_nextRequestId++
postIncrement(n) == n + 1

\* The calls of the adapter and of the port leave the tiles alone.
NoTileCall ==
    UNCHANGED <<decodedTiles, tiles, mapViews, renderStyles, m_colorMap,
                m_maxPathLengthSqr, styleLog, workVars>>

\* call(message): the message goes to the target with the next request id as
\* its `requestId`; the promise that is returned is entered in m_requests
\* under this id.  A promise is its index in `promises`.
DoCall(message) ==
    /\ Called([fn |-> "call", message |-> message])
    /\ LET requestId == m_nextRequestId
       IN  /\ m_nextRequestId' = postIncrement(m_nextRequestId)
           /\ posted' = Append(posted, [message EXCEPT !.requestId = Number(requestId)])
           /\ promises' = Append(promises, PendingPromise)
           /\ m_requests' = MapSet(m_requests, requestId, Len(promises) + 1)
    /\ UNCHANGED <<m_listeners, m_queuedEvents, delivered>>
    /\ NoTileCall

\* onMessageFromTarget: a message event of the target arrives.
OnMessageFromTarget(messageEvent) ==
    /\ Called([fn |-> "onMessageFromTarget", messageEvent |-> messageEvent])
    /\ LET message == messageEvent.data
       IN  IF isFalsy(message)
           THEN UNCHANGED promises
           ELSE IF isFalsy(message.requestId) \/ ~isNumber(message.requestId)
           THEN UNCHANGED promises
           ELSE IF message.requestId.number \notin DOMAIN m_requests
           THEN UNCHANGED promises
           ELSE promises' = [promises EXCEPT ![m_requests[message.requestId.number]] =
                                resolve(@, message)]
    /\ UNCHANGED <<m_nextRequestId, m_requests, posted, m_listeners, m_queuedEvents, delivered>>
    /\ NoTileCall

\* No tile and no theme: an adapter on a message port, no call made yet.
InitAdapter ==
    /\ NoThemes
    /\ FreshCreator
    /\ decodedTiles = EmptyMap
    /\ tiles = EmptyMap
    /\ mapViews = EmptyMap
    /\ NoWork
    /\ NoPort

\* The messages handed to call(): one of them has a `requestId` of its own.
CallInputs == { Message("start-worker", Undefined), Message("terminate-worker", Number(1)) }

\* The message events of the target: without data, without request id, with
\* the request id 0, with a string as request id, and responses of two types
\* to every request id, in any order and any number of times.
TargetEvents ==
    { MessageEvent(Undefined), MessageEvent(Message("worker-started", Undefined)),
      MessageEvent(Message("worker-started", Number(0))),
      MessageEvent(Message("worker-started", String("1"))) }
    \cup { MessageEvent(Message(type, Number(r))) :
               type \in {"worker-started", "error-from-worker"}, r \in 1..MaxCalls }

NextAdapter ==
    \/ \E message \in CallInputs : DoCall(message)
    \/ \E messageEvent \in TargetEvents : OnMessageFromTarget(messageEvent)

SpecAdapter == InitAdapter /\ [][NextAdapter]_vars

\* ------------------------------------------------ BasicAbstractMessagePort
\* m_listeners is undefined or a table from event types to arrays of
\* listeners; a listener is its name.  this.m_listeners[type], where it is
\* defined:
hasListeners(table, type) == type \in DOMAIN table

Event(type) == [type |-> type]

\* dispatchEvent on a port with a table of listeners: without an array for
\* the type the event is queued, else every listener of the array is called
\* (`delivered` lists the calls).
dispatchEvent(port, event) ==
    IF ~hasListeners(port.m_listeners, event.type)
    THEN [port EXCEPT !.m_queuedEvents = Append(@, event)]
    ELSE LET listeners == port.m_listeners[event.type]
         IN  [port EXCEPT !.delivered =
                 @ \o [n \in 1..Len(listeners) |-> [listener |-> listeners[n], event |-> event]]]

\* dispatchQueuedMessagesIfNeeded: the loop over the events that were queued.
RECURSIVE dispatchQueued(_, _)
dispatchQueued(port, queuedEvents) ==
    IF queuedEvents = <<>>
    THEN port
    ELSE dispatchQueued(dispatchEvent(port, Head(queuedEvents)), Tail(queuedEvents))

\* A call of the port; `throws` tells that the call ends with the TypeError
\* of reading a property of the undefined m_listeners.
PortCall(fn, type, listener) ==
    [fn |-> fn, type |-> type, listener |-> listener, throws |-> isUndefined(m_listeners)]

AddEventListener(type, listener) ==
    /\ Called(PortCall("addEventListener", type, listener))
    /\ IF isUndefined(m_listeners)
       THEN UNCHANGED m_listeners
       ELSE LET listeners == IF hasListeners(m_listeners, type) THEN m_listeners[type] ELSE <<>>
            IN  m_listeners' = MapSet(m_listeners, type, Append(listeners, listener))
    /\ UNCHANGED <<m_queuedEvents, delivered, m_nextRequestId, m_requests, promises, posted>>
    /\ NoTileCall

\* The array of the type becomes listeners.filter(existingListener =>
\* existingListener === listener).
RemoveEventListener(type, listener) ==
    /\ Called(PortCall("removeEventListener", type, listener))
    /\ IF isUndefined(m_listeners)
       THEN UNCHANGED m_listeners
       ELSE IF ~hasListeners(m_listeners, type)
       THEN UNCHANGED m_listeners
       ELSE m_listeners' =
                MapSet(m_listeners, type,
                       SelectSeq(m_listeners[type], LAMBDA existingListener :
                                                        existingListener = listener))
    /\ UNCHANGED <<m_queuedEvents, delivered, m_nextRequestId, m_requests, promises, posted>>
    /\ NoTileCall

DispatchEvent(event) ==
    /\ Called(PortCall("dispatchEvent", event.type, Undefined))
    /\ IF isUndefined(m_listeners)
       THEN UNCHANGED <<m_queuedEvents, delivered>>
       ELSE LET port == dispatchEvent([m_listeners |-> m_listeners,
                                       m_queuedEvents |-> m_queuedEvents,
                                       delivered |-> delivered], event)
            IN  /\ m_queuedEvents' = port.m_queuedEvents
                /\ delivered' = port.delivered
    /\ UNCHANGED <<m_listeners, m_nextRequestId, m_requests, promises, posted>>
    /\ NoTileCall

\* start(): the queued events are dispatched again.  Events are queued only
\* by a port with a table, so that the loop does not throw.
Start ==
    /\ Called([fn |-> "start", throws |-> FALSE])
    /\ LET port == dispatchQueued([m_listeners |-> m_listeners, m_queuedEvents |-> <<>>,
                                   delivered |-> delivered], m_queuedEvents)
       IN  /\ m_queuedEvents' = port.m_queuedEvents
           /\ delivered' = port.delivered
    /\ UNCHANGED <<m_listeners, m_nextRequestId, m_requests, promises, posted>>
    /\ NoTileCall

\* A port after construction.  The field m_listeners has no initializer, so
\* that the port of the code starts without a table; next to it stands the
\* port whose table is the empty object, with which the methods get past
\* their first line.
InitPort ==
    /\ NoThemes
    /\ FreshCreator
    /\ decodedTiles = EmptyMap
    /\ tiles = EmptyMap
    /\ mapViews = EmptyMap
    /\ NoWork
    /\ m_nextRequestId = 1
    /\ m_requests = EmptyMap
    /\ promises = <<>>
    /\ posted = <<>>
    /\ m_listeners \in {Undefined, EmptyMap}
    /\ m_queuedEvents = <<>>
    /\ delivered = <<>>

EventTypes == {"message", "error"}
Listeners == {"a", "b", "c"}

NextPort ==
    \/ \E type \in EventTypes, listener \in Listeners : AddEventListener(type, listener)
    \/ \E type \in EventTypes, listener \in Listeners : RemoveEventListener(type, listener)
    \/ \E type \in EventTypes : DispatchEvent(Event(type))
    \/ Start

SpecPort == InitPort /\ [][NextPort]_vars

\* =================================================================== claims
Settled(t) == task[t].status \in {"done", "failed"}
Done(t) == task[t].status = "done"
Result(t) == heap[task[t].ret]
\* The style sets of a theme, by content.
StyleSetsOf(theme) == [n \in DOMAIN theme.styles |-> arrays[theme.styles[n]]]
ChainHead(k) == ExtUrl(Url("srv", "chain", k))
LoadsChain(t, k) == calls[t].fn = "load" /\ calls[t].arg = ChainHead(k)
\* The number of load activations on the stack of t.
NestedLoads(t) == Cardinality({i \in 1..Len(task[t].stack) : task[t].stack[i].fn = "load"})

\* C1: with the default maximum inheritance depth, loading the head of a chain
\* of 5 themes fails with the depth-exceeded error, and loading the head of a
\* chain of exactly 4 themes succeeds.
C1_DepthGuard ==
    \A t \in Tasks :
        /\ (LoadsChain(t, 5) /\ Settled(t)) =>
               (task[t].status = "failed" /\ task[t].error = "maxInheritanceDepth")
        /\ (LoadsChain(t, 4) /\ Settled(t)) => Done(t)

\* C2: a load of a theme whose `extends` chain is cyclic by URL stops with the
\* depth-exceeded error: it never gets to nest more loads than the themes the
\* maximum inheritance depth allows (the theme and 4 bases).
C2_CyclicLoadStops ==
    \A t \in Tasks :
        (calls[t].fn = "load" /\ calls[t].arg = ExtUrl(Url("srv", "cycle", 0))) =>
            /\ NestedLoads(t) <= DEFAULT_MAX_THEME_INTHERITANCE_DEPTH + 1
            /\ Settled(t) => (task[t].status = "failed" /\ task[t].error = "maxInheritanceDepth")

\* The base of the client's theme `id` as the client gave it: its definitions
\* and its style sets.
InputBaseDefs(id) ==
    LET ext == input.heap[id].ext
    IN  IF ext.kind = "url" THEN Document(ext.url).defs ELSE input.heap[ext.obj].defs
InputBaseStyleSets(id) ==
    LET ext == input.heap[id].ext
    IN  IF ext.kind = "url" THEN Document(ext.url).styleSets
        ELSE [n \in DOMAIN input.heap[ext.obj].styles |-> input.arrays[input.heap[ext.obj].styles[n]]]
\* No other call has started.
Alone(t) == \A u \in Tasks \ {t} : task[u].status = "idle"
\* The load of X that C4 is about: completed, and its base either fetched by
\* URL or an in-memory theme that no other call has touched.
LoadedX(t) ==
    /\ calls[t] = loadFrame(ExtObj(X), TRUE)
    /\ Done(t)
    /\ input.heap[X].ext.kind = "obj" => Alone(t)

\* C4: loading a theme that extends a base theme yields the base's style sets
\* (those the child does not replace) expanded against the merged definitions:
\* a base attribute {$ref: D} becomes the child's value of D when the child
\* overrides D and the base's value of D when it does not; and an empty child
\* of a base loads to the same style sets as the base itself.
C4_BaseStylesUseMergedDefinitions ==
    /\ \A t \in Tasks : LoadedX(t) =>
          LET child == input.heap[X]
              baseDefs == InputBaseDefs(X)
              baseSets == InputBaseStyleSets(X)
          IN  \A n \in DOMAIN baseSets \ DOMAIN child.styles :
                /\ n \in DOMAIN Result(t).styles
                /\ Len(StyleSetsOf(Result(t))[n]) = Len(baseSets[n])
                /\ \A i \in 1..Len(baseSets[n]) :
                     LET baseStyle == baseSets[n][i]
                         style == StyleSetsOf(Result(t))[n][i]
                     IN  /\ Without(style, "attr") = Without(baseStyle, "attr")
                         /\ \A p \in {q \in DOMAIN baseStyle.attr : isReference(baseStyle.attr[q])} :
                              LET D == baseStyle.attr[p].ref IN
                              /\ (D \in DOMAIN child.defs /\ isValueDefinition(child.defs[D])) =>
                                    (p \in DOMAIN style.attr /\ style.attr[p] = child.defs[D].value)
                              /\ (D \notin DOMAIN child.defs /\ D \in DOMAIN baseDefs
                                     /\ isValueDefinition(baseDefs[D])) =>
                                    (p \in DOMAIN style.attr /\ style.attr[p] = baseDefs[D].value)
    /\ ( /\ calls = <<loadFrame(ExtObj(X), TRUE), loadFrame(ExtUrl(BaseUrl), TRUE)>>
         /\ input.heap[X].ext = ExtUrl(BaseUrl)
         /\ ~input.heap[X].hasDefs /\ ~input.heap[X].hasStyles
         /\ Done(1) /\ Done(2) )
       => StyleSetsOf(Result(1)) = StyleSetsOf(Result(2))

\* C4 witness: a child overriding roadColor has been loaded over a base whose
\* style refers to roadColor, and the style now holds the child's value.
C4_Witness ==
    \E t \in Tasks :
        /\ LoadedX(t)
        /\ input.heap[X].hasDefs /\ ~input.heap[X].hasStyles
        /\ InputBaseStyleSets(X)["tilezen"][1].attr["lineColor"] = Ref("roadColor")
        /\ InputBaseDefs(X)["roadColor"] = ValueDef("#f00")
        /\ StyleSetsOf(Result(t))["tilezen"][1].attr["lineColor"] = Lit("#fff")

\* C5: resolveBaseTheme(child) holds the child's definition for every key the
\* child defines, and keeps unchanged every definition that only the base has.
C5_OverrideBiased ==
    \A t \in Tasks :
        ( /\ calls[t] = resolveFrame(X, DEFAULT_MAX_THEME_INTHERITANCE_DEPTH)
          /\ Done(t) ) =>
            LET child == input.heap[X]
                baseDefs == InputBaseDefs(X)
            IN  /\ \A k \in DOMAIN child.defs :
                      k \in DOMAIN Result(t).defs /\ Result(t).defs[k] = child.defs[k]
                /\ \A k \in DOMAIN baseDefs \ DOMAIN child.defs :
                      k \in DOMAIN Result(t).defs /\ Result(t).defs[k] = baseDefs[k]

\* C5 witness: a resolved child that overrides the base's roadColor and keeps
\* a definition only the base has.
C5_Witness ==
    \E t \in Tasks :
        /\ calls[t] = resolveFrame(X, DEFAULT_MAX_THEME_INTHERITANCE_DEPTH)
        /\ Done(t)
        /\ input.heap[X].hasDefs
        /\ InputBaseDefs(X)["roadColor"] = ValueDef("#f00")
        /\ Result(t).defs["roadColor"] = ValueDef("#fff")
        /\ \E k \in DOMAIN InputBaseDefs(X) \ DOMAIN input.heap[X].defs :
              Result(t).defs[k] = InputBaseDefs(X)[k]

\* ------------------------------------------------------------- a call alone
\* What a call returns when it is the only call made on the client's themes:
\* load, resolveBaseTheme and expandReferences run to completion from a store
\* st = [heap, arrays].  The outcome is [st, ret, error].
Outcome(st, ret, error) == [st |-> st, ret |-> ret, error |-> error]

RECURSIVE soloLoad(_, _, _)
RECURSIVE soloResolveBaseTheme(_, _, _, _)
soloResolveBaseTheme(st, theme, maxInheritanceDepth, fuel) ==
    IF st.heap[theme].ext.kind = "none" THEN Outcome(st, theme, "")
    ELSE IF maxInheritanceDepth <= 0 THEN Outcome(st, 0, "maxInheritanceDepth")
    ELSE LET baseTheme == st.heap[theme].ext
             r == soloLoad([st EXCEPT !.heap[theme].ext = NoExt], baseTheme, fuel - 1)
         IN  IF r.error # "" THEN r
             ELSE LET merged == mergeThemes(r.st.heap[r.ret], r.st.heap[theme])
                      st2 == [r.st EXCEPT !.heap = Append(@, merged)]
                  IN  soloResolveBaseTheme(st2, Len(st2.heap), maxInheritanceDepth - 1, fuel)

\* load(theme, false)
soloLoad(st, arg, fuel) ==
    IF fuel <= 0 THEN Outcome(st, 0, "unbounded")
    ELSE IF arg.kind = "url"
    THEN IF ~Document(defaultUrlResolver(arg.url)).ok THEN Outcome(st, 0, "load")
         ELSE LET st1 == fetched(st, defaultUrlResolver(arg.url))
                  id == Len(st1.heap)
              IN  soloResolveBaseTheme([st1 EXCEPT !.heap = resolveUrls(@, id)], id,
                                       DEFAULT_MAX_THEME_INTHERITANCE_DEPTH, fuel)
    ELSE soloResolveBaseTheme([st EXCEPT !.heap = resolveUrls(@, arg.obj)], arg.obj,
                              DEFAULT_MAX_THEME_INTHERITANCE_DEPTH, fuel)

soloExpandReferences(st, theme, fuel) ==
    LET r == soloResolveBaseTheme(st, theme, DEFAULT_MAX_THEME_INTHERITANCE_DEPTH, fuel)
    IN  IF r.error # "" THEN r
        ELSE Outcome([r.st EXCEPT !.arrays = expandedArrays(@, r.st.heap[r.ret])],
                     IF expansionThrows(r.st.arrays, r.st.heap[r.ret]) THEN 0 ELSE r.ret,
                     IF expansionThrows(r.st.arrays, r.st.heap[r.ret]) THEN "SyntaxError" ELSE "")

soloCall(call) ==
    IF call.fn = "load"
    THEN LET r == soloLoad(input, call.arg, MaxObjs)
         IN  IF r.error # "" \/ ~call.expand THEN r ELSE soloExpandReferences(r.st, r.ret, MaxObjs)
    ELSE IF call.fn = "expandReferences"
    THEN soloExpandReferences(input, call.theme, MaxObjs)
    ELSE soloResolveBaseTheme(input, call.theme, call.depth, MaxObjs)

\* A theme of a store by content: its fields, its style sets dereferenced.
ThemeValue(st, id) ==
    [ext |-> st.heap[id].ext, url |-> st.heap[id].url, img |-> st.heap[id].img,
     hasDefs |-> st.heap[id].hasDefs, defs |-> st.heap[id].defs,
     hasStyles |-> st.heap[id].hasStyles,
     styleSets |-> [n \in DOMAIN st.heap[id].styles |-> st.arrays[st.heap[id].styles[n]]]]
Store == [heap |-> heap, arrays |-> arrays]

\* A settled call has the outcome it has when made alone.
SameAsAlone(t) ==
    /\ Done(t) => /\ soloCall(calls[t]).error = ""
                  /\ ThemeValue(Store, task[t].ret) =
                        ThemeValue(soloCall(calls[t]).st, soloCall(calls[t]).ret)
    /\ task[t].status = "failed" => soloCall(calls[t]).error = task[t].error

\* C10: loads of different themes are independent: the theme a load returns is
\* the theme it returns when no other load is made, whatever other load was
\* made before it or interleaved with it.
C10_LoadsIndependent ==
    (\A u \in Tasks : calls[u].fn = "load") => \A t \in Tasks : SameAsAlone(t)

\* The reference agrees with the calls: a call made while no other call has
\* started has the outcome of soloCall.
SoloAgreesWhenAlone == \A t \in Tasks : Alone(t) => SameAsAlone(t)

\* ------------------------------------------------ claims on the expansion
\* The style sets of the expanded theme (object 1) as the client gave them,
\* and the entries they hold.
InputStyleSets == [n \in DOMAIN input.heap[1].styles |-> input.arrays[input.heap[1].styles[n]]]
Entries == UNION {{<<n, i>> : i \in 1..Len(InputStyleSets[n])} : n \in DOMAIN InputStyleSets}
In(e) == InputStyleSets[e[1]][e[2]]
Out(e) == StyleSetsOf(Result(1))[e[1]][e[2]]
\* The definitions the references are resolved with, and the kinds of definition.
Definitions == Result(1).defs
IsValueDef(N) == N \in DOMAIN Definitions /\ isValueDefinition(Definitions[N])
IsStyleDef(N) == N \in DOMAIN Definitions /\ ~isValueDefinition(Definitions[N])
HasAttr(style) == "attr" \in DOMAIN style
\* The attributes `from` resolved into the attributes of `style`: a reference
\* to a value definition is its value, an attribute that is no reference is kept.
AttrsResolved(from, style) ==
    \A p \in DOMAIN from :
        /\ (isReference(from[p]) /\ IsValueDef(from[p].ref)) =>
              (HasAttr(style) /\ p \in DOMAIN style.attr
                 /\ style.attr[p] = Definitions[from[p].ref].value)
        /\ ~isReference(from[p]) =>
              (HasAttr(style) /\ p \in DOMAIN style.attr /\ style.attr[p] = from[p])

\* C3: when load(theme, true) or expandReferences(theme) completes, the
\* returned theme has no `extends`, no style entry is a $ref and no value of
\* any style's attr is a $ref, whatever the input theme.
C3_NoReferenceLeft ==
    Done(1) =>
        /\ Result(1).ext = NoExt
        /\ \A n \in DOMAIN Result(1).styles :
              \A i \in 1..Len(StyleSetsOf(Result(1))[n]) :
                 LET style == StyleSetsOf(Result(1))[n][i]
                 IN  /\ ~isReference(style)
                     /\ HasAttr(style) => \A p \in DOMAIN style.attr : ~isReference(style.attr[p])

\* C6: expandReferences replaces every style attribute {$ref: N}, N a value
\* definition, by the value of N, and leaves as they were the attributes that
\* are no references (and the other fields of the style).
C6_ValueReferencesExpanded ==
    Done(1) =>
        \A e \in Entries :
            (~isReference(In(e)) /\ HasAttr(In(e))) =>
                /\ AttrsResolved(In(e).attr, Out(e))
                /\ Without(Out(e), "attr") = Without(In(e), "attr")

\* C6 witness: an expanded style whose lineColor was {$ref: roadColor} and is
\* now the value of roadColor, next to an attribute that was no reference.
C6_Witness ==
    /\ Done(1)
    /\ \E e \in Entries :
          /\ ~isReference(In(e)) /\ HasAttr(In(e))
          /\ "lineColor" \in DOMAIN In(e).attr /\ In(e).attr["lineColor"] = Ref("roadColor")
          /\ IsValueDef("roadColor")
          /\ Out(e).attr["lineColor"] = Definitions["roadColor"].value
          /\ Out(e).attr["lineWidth"] = Lit("2")

\* An entry that is a $ref to a style definition.
RefersToStyleDef(e) == isReference(In(e)) /\ IsStyleDef(In(e).ref)

\* C7: a style entry that is a $ref to a style definition is replaced by the
\* fields of the definition overlaid with the entry's own fields, without the
\* $ref, and the attributes it ends up with (its own, else the definition's)
\* have their references to value definitions resolved.
C7_StyleReferenceInstantiated ==
    Done(1) =>
        \A e \in Entries :
            RefersToStyleDef(e) =>
                LET def == Definitions[In(e).ref]
                    from == IF HasAttr(In(e)) THEN In(e).attr
                            ELSE IF HasAttr(def) THEN def.attr ELSE EmptyMap
                IN  /\ DOMAIN Out(e) = (DOMAIN def \cup DOMAIN In(e)) \ {"ref"}
                    /\ \A k \in DOMAIN In(e) \ {"ref", "attr"} : Out(e)[k] = In(e)[k]
                    /\ \A k \in DOMAIN def \ (DOMAIN In(e) \cup {"attr"}) : Out(e)[k] = def[k]
                    /\ AttrsResolved(from, Out(e))

\* C7 witness: the entry {when: w2, $ref: roadTechnique} has become the road
\* technique with the entry's `when` and with lineColor resolved.
C7_Witness ==
    /\ Done(1)
    /\ \E e \in Entries :
          /\ In(e) = [when |-> "w2", ref |-> "roadTechnique"]
          /\ RefersToStyleDef(e)
          /\ IsValueDef("roadColor")
          /\ Out(e)["when"] = "w2"
          /\ Out(e)["description"] = "roads"
          /\ Out(e).attr["lineColor"] = Definitions["roadColor"].value

\* C8: an attribute $ref that names a missing definition, or a style
\* definition, is dropped: once expandReferences has completed, the key is
\* absent from the attr map of the style.
C8_BadAttributeReferenceDropped ==
    Done(1) =>
        \A e \in Entries :
            (~isReference(In(e)) /\ HasAttr(In(e))) =>
                \A p \in DOMAIN In(e).attr :
                    (isReference(In(e).attr[p]) /\ ~IsValueDef(In(e).attr[p].ref)) =>
                        (HasAttr(Out(e)) /\ p \notin DOMAIN Out(e).attr)

\* C9: a style entry whose $ref names a missing definition or a value
\* definition is a soft failure: the call does not throw, the entry is
\* skipped, and the other styles of the theme are still expanded.
C9_BadStyleReferenceSkipped ==
    \A e \in Entries :
        (isReference(In(e)) /\ Settled(1)) =>
            /\ task[1].status # "failed"
            /\ ~IsStyleDef(In(e).ref) =>
                  /\ Out(e) = In(e)
                  /\ \A o \in Entries \ {e} :
                        (~isReference(In(o)) /\ HasAttr(In(o))) => AttrsResolved(In(o).attr, Out(o))

\* ------------------------------------------------- technique enabling claims
Techniques(t) == decodedTiles[t].techniques
Unprocessed(t, i) == Techniques(t)[i].enabled = "undefined"
IsInitDecodedTile(call) == call.fn = "initDecodedTile"

\* C11: once initDecodedTile has processed a technique of a decoded tile, no
\* later step (no later initDecodedTile, whatever its enabledKinds and
\* disabledKinds) changes the technique's `enabled`.
C11_EnablingMemoized ==
    [][\A t \in DOMAIN decodedTiles : \A i \in 1..Len(Techniques(t)) :
          ~Unprocessed(t, i) =>
              decodedTiles'[t].techniques[i].enabled = Techniques(t)[i].enabled]_vars

\* A second initDecodedTile asked to disable "road" has left a road technique
\* enabled, as the first call set it.
C11_Witness ==
    /\ callsLeft <= MaxCalls - 2
    /\ IsInitDecodedTile(lastCall)
    /\ lastCall.disabledKinds = KindSet({"road"})
    /\ isUndefined(lastCall.enabledKinds)
    /\ \E i \in 1..Len(Techniques("T")) :
          /\ Techniques("T")[i].kind = KindSet({"road"})
          /\ Techniques("T")[i].enabled = "true"

\* The kinds that a technique's `kind` names: the string itself, the elements
\* of the array, the members of the set.
KindsOf(kind) ==
    IF "string" \in DOMAIN kind THEN {kind.string} \ {""}
    ELSE IF "array" \in DOMAIN kind THEN Elements(kind.array)
    ELSE IF "set" \in DOMAIN kind THEN kind.set
    ELSE {}
Matched(kinds, kind) == ~isUndefined(kinds) /\ kinds.set \cap KindsOf(kind) # {}

\* C12: initDecodedTile enables a technique it has not processed yet when its
\* kind is undefined or empty; otherwise the technique is enabled if and only
\* if its kind is not matched by disabledKinds or is matched by enabledKinds.
C12_EnabledUnlessDisabled ==
    [][IsInitDecodedTile(lastCall') =>
          \A i \in 1..Len(Techniques(lastCall'.tile)) :
              LET technique == Techniques(lastCall'.tile)[i]
              IN  Unprocessed(lastCall'.tile, i) =>
                      decodedTiles'[lastCall'.tile].techniques[i].enabled =
                          Enabled(\/ KindsOf(technique.kind) = {}
                                  \/ ~Matched(lastCall'.disabledKinds, technique.kind)
                                  \/ Matched(lastCall'.enabledKinds, technique.kind))]_vars

\* C19: a technique whose kind is the string K is treated like a technique
\* whose kind is the array [K]: it is disabled when disabledKinds holds K and
\* enabledKinds does not match it.
C19_StringKindIsSingleton ==
    [][IsInitDecodedTile(lastCall') =>
          \A i \in 1..Len(Techniques(lastCall'.tile)) :
              LET technique == Techniques(lastCall'.tile)[i]
                  asArray == [technique EXCEPT !.kind = KindArray(<<technique.kind.string>>)]
              IN  /\ Unprocessed(lastCall'.tile, i)
                  /\ "string" \in DOMAIN technique.kind
                  /\ technique.kind.string # ""
                  => decodedTiles'[lastCall'.tile].techniques[i].enabled =
                         initTechnique(asArray, lastCall'.enabledKinds,
                                       lastCall'.disabledKinds).enabled]_vars

\* ------------------------------------------------------------- object claims
Objects(t) == tiles[t].objects
Groups(t, g) == decodedTiles[t].geometries[g].groups
IsMainObject(object) == object.type = "object"

\* The objects that the step appends to the object list of tile t
\* (createAllGeometries empties the list first).
Appended(t) ==
    IF lastCall'.fn = "createAllGeometries"
    THEN tiles'[t].objects
    ELSE SubSeq(tiles'[t].objects, Len(tiles[t].objects) + 1, Len(tiles'[t].objects))

\* Group m has the technique of the group before it and starts where it ends.
Continues(groups, m) ==
    /\ m > 1
    /\ groups[m].technique = groups[m - 1].technique
    /\ groups[m].start = groups[m - 1].start + groups[m - 1].count

\* The last group of the longest run of continuing groups that starts at group j.
RunEnd(groups, j) ==
    CHOOSE k \in j..Len(groups) :
        /\ \A m \in (j + 1)..k : Continues(groups, m)
        /\ k = Len(groups) \/ ~Continues(groups, k + 1)

\* The group of geometry g at which the draw range of the object starts.
StartGroup(t, object) ==
    CHOOSE j \in 1..Len(Groups(t, object.geometry)) :
        Groups(t, object.geometry)[j].start = object.start

\* C13: the draw range of an object that createObjects builds covers the group
\* it starts at and all the consecutive groups after it that have the same
\* technique and are contiguous in the index buffer, as one range (no object
\* of their own is built for them in the call); it ends before the first
\* group that is not contiguous or has another technique.
C13_GroupCompression ==
    [][\A t \in DOMAIN tiles : \A n \in 1..Len(Appended(t)) :
          LET object == Appended(t)[n]
              groups == Groups(t, object.geometry)
              j == StartGroup(t, object)
              k == RunEnd(groups, j)
          IN  IsMainObject(object) =>
                  /\ groups[j].technique = object.technique
                  /\ object.start + object.count = groups[k].start + groups[k].count
                  /\ \A m \in 1..Len(Appended(t)) :
                        IsMainObject(Appended(t)[m]) /\ Appended(t)[m].geometry = object.geometry
                        => StartGroup(t, Appended(t)[m]) \notin (j + 1)..k]_vars

\* An object covers two merged groups, and the next group of the same
\* technique, which is not contiguous, is left out of its range.
C13_Witness ==
    \E n \in 1..Len(Objects("T")) :
        LET object == Objects("T")[n]
            groups == Groups("T", object.geometry)
            j == StartGroup("T", object)
            k == RunEnd(groups, j)
        IN  /\ IsMainObject(object)
            /\ k > j
            /\ object.count = groups[j].count + groups[k].count
            /\ k < Len(groups)
            /\ groups[k + 1].technique = object.technique
            /\ groups[k + 1].start > object.start + object.count

\* The main objects of tile t whose draw range includes the range of group j
\* of geometry g.
Drawing(t, g, j) ==
    {n \in 1..Len(Objects(t)) :
        /\ IsMainObject(Objects(t)[n])
        /\ Objects(t)[n].geometry = g
        /\ Objects(t)[n].start <= Groups(t, g)[j].start
        /\ Groups(t, g)[j].start + Groups(t, g)[j].count
               <= Objects(t)[n].start + Objects(t)[n].count}

\* C20: in the object list of a tile, the index range of every group of the
\* decoded tile is included in the draw range of at most one object.
C20_GroupDrawnOnce ==
    \A t \in DOMAIN tiles : \A g \in 1..Len(decodedTiles[t].geometries) :
        \A j \in 1..Len(Groups(t, g)) : Cardinality(Drawing(t, g, j)) <= 1

\* The decoded tile as it is before any object is built from it.
Unbuilt(decodedTile) ==
    [decodedTile EXCEPT !.geometries =
        [g \in 1..Len(@) |-> [@[g] EXCEPT !.groups =
            [j \in 1..Len(@) |-> [@[j] EXCEPT !.created = FALSE]]]]]
Labels(textElements) ==
    [n \in 1..Len(textElements) |->
        [type |-> textElements[n].type, text |-> textElements[n].text,
         points |-> textElements[n].points, featureId |-> textElements[n].featureId]]
Buildable(technique) ==
    technique.enabled = "true" /\ hasObjectConstructor(technique) /\ hasMaterial(technique)

\* C17: after every createAllGeometries call the object list of the tile holds
\* an object for every group of an enabled, buildable technique, and the
\* object list and the labels are those that the build of the same decoded
\* tile gives on a new tile, also when the tile was built before.
C17_RebuildRepopulates ==
    [][lastCall'.fn = "createAllGeometries" =>
          LET t == lastCall'.tile
              first == createAllGeometries(
                           [World EXCEPT !.tiles[t] = Tile(@.tileKey, @.dataSource, @.mapView),
                                         !.decodedTiles[t] = Unbuilt(@)], t).tiles[t]
          IN  /\ tiles'[t].objects = first.objects
              /\ Labels(tiles'[t].textElements) = Labels(first.textElements)
              /\ \A g \in 1..Len(decodedTiles[t].geometries) : \A j \in 1..Len(Groups(t, g)) :
                    Buildable(Techniques(t)[Groups(t, g)[j].technique]) =>
                        \E n \in 1..Len(tiles'[t].objects) :
                            /\ IsMainObject(tiles'[t].objects[n])
                            /\ tiles'[t].objects[n].geometry = g
                            /\ tiles'[t].objects[n].start <= Groups(t, g)[j].start
                            /\ Groups(t, g)[j].start + Groups(t, g)[j].count
                                   <= tiles'[t].objects[n].start + tiles'[t].objects[n].count]_vars

\* --------------------------------------------------------------- text claims
IsTextCall(call) == call.fn \in {"createTextElements", "createAllGeometries"}
TextFilterOf(call) == IF call.fn = "createTextElements" THEN call.filter ELSE NoFilter

\* The text paths that the step appends to the prepared text paths of tile t.
AppendedPaths(t) ==
    SubSeq(tiles'[t].preparedTextPaths, Len(tiles[t].preparedTextPaths) + 1,
           Len(tiles'[t].preparedTextPaths))

\* The vertex sequences of the appended paths made from the text path with
\* the given feature, in the order in which they were appended.
Pieces(t, featureId) ==
    LET OfFeature(textPath) == textPath.featureId = featureId
        pieces == SelectSeq(AppendedPaths(t), OfFeature)
    IN  [n \in 1..Len(pieces) |-> pieces[n].path]

\* The text path is one that the call prepares.
Prepared(t, textPath, call) ==
    /\ isTextTechnique(Techniques(t)[textPath.technique])
    /\ passes(TextFilterOf(call), textPath.technique)

\* The vertices where a path is cut, in ascending order: its ends and its corners.
Cuts(path) ==
    LET cuts == {1, Len(path)} \cup Corners(path)
    IN  CHOOSE s \in [1..Cardinality(cuts) -> cuts] : \A i, j \in DOMAIN s : i < j => s[i] < s[j]

\* C14: a call that prepares the text paths of a tile cuts every text path at
\* every vertex where the turning angle exceeds PI / 8 and nowhere else: the
\* sub-paths it appends for a path run from one cut to the next, each corner
\* vertex ending one sub-path and starting the next; a path with exactly one
\* corner gives exactly two sub-paths, whose vertices, the corner counted
\* once, are those of the path in order; no appended sub-path has a corner.
C14_SplitAtCorners ==
    [][IsTextCall(lastCall') =>
          LET t == lastCall'.tile
              sources == decodedTiles[t].textPathGeometries
          IN  /\ \A n \in 1..Len(sources) :
                    LET path == sources[n].path
                        pieces == Pieces(t, sources[n].featureId)
                    IN  Prepared(t, sources[n], lastCall') =>
                          /\ Corners(path) = {} => pieces = <<path>>
                          /\ Corners(path) # {} =>
                                /\ Len(pieces) = Cardinality(Corners(path)) + 1
                                /\ \A k \in 1..Len(pieces) :
                                      pieces[k] = SubSeq(path, Cuts(path)[k], Cuts(path)[k + 1])
                          /\ Cardinality(Corners(path)) = 1 =>
                                /\ Len(pieces) = 2
                                /\ Last(pieces[1]) = Head(pieces[2])
                                /\ pieces[1] \o Tail(pieces[2]) = path
              /\ \A n \in 1..Len(AppendedPaths(t)) : Corners(AppendedPaths(t)[n].path) = {}]_vars

\* A path of four vertices with one corner, at its third vertex, is prepared
\* as a sub-path of three vertices and one of two.
C14_Witness ==
    \E n \in 1..Len(decodedTiles["T"].textPathGeometries) :
        LET source == decodedTiles["T"].textPathGeometries[n]
            prepared == tiles["T"].preparedTextPaths
        IN  /\ Len(source.path) = 4
            /\ Corners(source.path) = {3}
            /\ \E m \in 1..(Len(prepared) - 1) :
                  /\ prepared[m].featureId = source.featureId
                  /\ prepared[m].path = SubSeq(source.path, 1, 3)
                  /\ prepared[m + 1].featureId = source.featureId
                  /\ prepared[m + 1].path = SubSeq(source.path, 3, 4)

\* The text path of the decoded tile from which a path label was built.
SourcePath(t, textElement) ==
    LET sources == decodedTiles[t].textPathGeometries
    IN  sources[CHOOSE n \in 1..Len(sources) : sources[n].featureId = textElement.featureId]
BasePriority(t, textElement) == Techniques(t)[SourcePath(t, textElement).technique].priority

\* C15: of two path labels of a tile whose techniques have the same priority,
\* the label of the longer path has the strictly higher priority.
C15_LongerPathHigherPriority ==
    \A t \in DOMAIN tiles : \A n1, n2 \in 1..Len(tiles[t].textElements) :
        LET e1 == tiles[t].textElements[n1]
            e2 == tiles[t].textElements[n2]
        IN  /\ e1.type = "path"
            /\ e2.type = "path"
            /\ BasePriority(t, e1) = BasePriority(t, e2)
            /\ SourcePath(t, e1).pathLengthSqr > SourcePath(t, e2).pathLengthSqr
            => RatLess(e2.priority, e1.priority)

\* The text elements that the step adds to tile t (createAllGeometries empties
\* the list first).
AppendedTexts(t) ==
    IF lastCall'.fn = "createAllGeometries"
    THEN tiles'[t].textElements
    ELSE SubSeq(tiles'[t].textElements, Len(tiles[t].textElements) + 1,
                Len(tiles'[t].textElements))
PointLabels(t) ==
    {n \in 1..Len(AppendedTexts(t)) : AppendedTexts(t)[n].type = "point"}

\* The text geometry is one from which the call builds labels.
Labelled(t, text, call) ==
    /\ text.technique # 0
    /\ ~isUndefined(text.stringCatalog)
    /\ isTextTechnique(Techniques(t)[text.technique])
    /\ passes(TextFilterOf(call), text.technique)

\* The entry of the string catalog for position i, if there is one.
Entry(text, i) == At(text.stringCatalog.entries, text.texts[i])

\* C18: a call that builds the text elements of a tile adds, for every text
\* geometry it builds labels from, exactly one point label for each position
\* whose string-catalog entry exists, with the text of the entry, none for a
\* position whose entry is missing, and no other point label.
C18_OneLabelPerCatalogEntry ==
    [][IsTextCall(lastCall') =>
          LET t == lastCall'.tile
              texts == decodedTiles[t].textGeometries
              LabelsOf(g, i) ==
                  {n \in PointLabels(t) :
                      /\ AppendedTexts(t)[n].featureId = texts[g].featureId
                      /\ AppendedTexts(t)[n].points = <<texts[g].positions[i]>>}
          IN  /\ \A g \in 1..Len(texts) : \A i \in 1..Len(texts[g].positions) :
                    IF Labelled(t, texts[g], lastCall') /\ ~isUndefined(Entry(texts[g], i))
                    THEN /\ Cardinality(LabelsOf(g, i)) = 1
                         /\ \A n \in LabelsOf(g, i) :
                               AppendedTexts(t)[n].text = Entry(texts[g], i).label
                    ELSE LabelsOf(g, i) = {}
              /\ \A n \in PointLabels(t) :
                    \E g \in 1..Len(texts) : \E i \in 1..Len(texts[g].positions) :
                        n \in LabelsOf(g, i)]_vars

\* A text geometry of three positions whose second catalog entry is missing
\* has given a label for the first and one for the third position, and none
\* for the second.
C18_Witness ==
    \E g \in 1..Len(decodedTiles["T"].textGeometries) :
        LET text == decodedTiles["T"].textGeometries[g]
            labels == {n \in 1..Len(tiles["T"].textElements) :
                          /\ tiles["T"].textElements[n].type = "point"
                          /\ tiles["T"].textElements[n].featureId = text.featureId}
        IN  /\ Len(text.positions) = 3
            /\ ~isUndefined(text.stringCatalog)
            /\ ~isUndefined(Entry(text, 1))
            /\ isUndefined(Entry(text, 2))
            /\ ~isUndefined(Entry(text, 3))
            /\ {tiles["T"].textElements[n].points : n \in labels}
                   = {<<text.positions[1]>>, <<text.positions[3]>>}
            /\ Cardinality(labels) = 2

IsObjectCall(call) == call.fn \in {"createObjects", "createAllGeometries"}
TechniqueFilterOf(call) == IF call.fn = "createObjects" THEN call.filter ELSE NoFilter

\* Group j of geometry g is one that the call turns into an object: it is not
\* created yet, and its technique is enabled, accepted by the filter and
\* buildable.
Processed(t, g, j, call) ==
    /\ ~Groups(t, g)[j].created
    /\ passes(TechniqueFilterOf(call), Groups(t, g)[j].technique)
    /\ Buildable(Techniques(t)[Groups(t, g)[j].technique])

\* The objects appended in the step whose draw range includes the index range
\* of group j of geometry g.
Covering(t, g, j) ==
    {n \in 1..Len(Appended(t)) :
        /\ IsMainObject(Appended(t)[n])
        /\ Appended(t)[n].geometry = g
        /\ Appended(t)[n].start <= Groups(t, g)[j].start
        /\ Groups(t, g)[j].start + Groups(t, g)[j].count
               <= Appended(t)[n].start + Appended(t)[n].count}

\* The render order of the object that is built for a group alone.
UnmergedRenderOrder(technique, group) ==
    (technique.renderOrder + group.renderOrderOffset) * RenderOrderOne

RECURSIVE SumOfCounts(_, _)
SumOfCounts(groups, S) ==
    IF S = {} THEN 0
    ELSE LET j == CHOOSE j \in S : TRUE
         IN  groups[j].count + SumOfCounts(groups, S \ {j})

\* The index range of every processed group lies in the draw range of exactly
\* one object of its technique built in the pass, that of no other group in
\* any, and a draw range holds no index beside those of its groups.
CoversProcessedGroups(t, call) ==
    \A g \in 1..Len(decodedTiles[t].geometries) :
        /\ \A j \in 1..Len(Groups(t, g)) :
              /\ Cardinality(Covering(t, g, j)) = IF Processed(t, g, j, call) THEN 1 ELSE 0
              /\ \A n \in Covering(t, g, j) :
                    Appended(t)[n].technique = Groups(t, g)[j].technique
        /\ \A n \in 1..Len(Appended(t)) :
              IsMainObject(Appended(t)[n]) /\ Appended(t)[n].geometry = g =>
                  Appended(t)[n].count =
                      SumOfCounts(Groups(t, g), {j \in 1..Len(Groups(t, g)) : n \in Covering(t, g, j)})

\* C21: in a createObjects pass, the draw ranges of the objects built cover
\* exactly the index ranges of the processed groups, each once, and the object
\* that covers a group has the render order of the object that would be built
\* for the group alone, the technique's render order plus the group's offset.
C21_CompressionPreservesOutput ==
    [][IsObjectCall(lastCall') =>
          LET t == lastCall'.tile
          IN  /\ CoversProcessedGroups(t, lastCall')
              /\ \A g \in 1..Len(decodedTiles[t].geometries) : \A j \in 1..Len(Groups(t, g)) :
                    \A n \in Covering(t, g, j) :
                        Appended(t)[n].renderOrder =
                            UnmergedRenderOrder(Techniques(t)[Groups(t, g)[j].technique],
                                                Groups(t, g)[j])]_vars

\* C22: every object in the object list of a tile carries the tile key, the
\* name of the data source and a kind in its user data.
C22_EveryObjectRegistered ==
    \A t \in DOMAIN tiles : \A n \in 1..Len(Objects(t)) :
        /\ DOMAIN Objects(t)[n].userData = {"tileKey", "dataSource", "kind"}
        /\ Objects(t)[n].userData.tileKey = tiles[t].tileKey
        /\ Objects(t)[n].userData.dataSource = tiles[t].dataSource.name

\* The object for which the edge or outline object at place n of the list
\* was built: the nearest object before it.
Parent(objects, n) ==
    objects[CHOOSE m \in 1..(n - 1) :
                /\ IsMainObject(objects[m])
                /\ \A k \in (m + 1)..(n - 1) : ~IsMainObject(objects[k])]
RenderOrderTenth == RenderOrderOne \div 10
HasOwnRenderOrder(t, object) ==
    ~isUndefined(Techniques(t)[object.technique].secondaryRenderOrder)

\* C23 as stated: the edge objects of extruded polygons, the outlines of fills
\* and the secondary outline of solid lines without secondary render order
\* have the render order of their parent object plus 0.1.
C23_OutlineAfterParent ==
    \A t \in DOMAIN tiles : \A n \in 1..Len(Objects(t)) :
        \/ Objects(t)[n].type \in {"edge", "outline"}
        \/ Objects(t)[n].type = "secondaryOutline" /\ ~HasOwnRenderOrder(t, Objects(t)[n])
        => Objects(t)[n].renderOrder = Parent(Objects(t), n).renderOrder + RenderOrderTenth

\* C23, amended: the edge objects of extruded polygons and the outlines of
\* fills have the render order of their parent object plus 0.1; the secondary
\* outline of a solid line without secondary render order has the render
\* order of its parent minus 0.0000001, so it is drawn before the parent.
C23_EdgesAfterCasingBeforeParent ==
    \A t \in DOMAIN tiles : \A n \in 1..Len(Objects(t)) :
        /\ Objects(t)[n].type \in {"edge", "outline"} =>
              Objects(t)[n].renderOrder = Parent(Objects(t), n).renderOrder + RenderOrderTenth
        /\ Objects(t)[n].type = "secondaryOutline" /\ ~HasOwnRenderOrder(t, Objects(t)[n]) =>
              Objects(t)[n].renderOrder = Parent(Objects(t), n).renderOrder - 1

\* A tile holds an edge object, a fill outline and a secondary outline without
\* render order of its own, the last for a group with a render order offset.
C23_Witness ==
    /\ \E n \in 1..Len(Objects("T")) : Objects("T")[n].type = "edge"
    /\ \E n \in 1..Len(Objects("T")) : Objects("T")[n].type = "outline"
    /\ \E n \in 1..Len(Objects("T")) :
          /\ Objects("T")[n].type = "secondaryOutline"
          /\ ~HasOwnRenderOrder("T", Objects("T")[n])
          /\ Objects("T")[n].renderOrder > Techniques("T")[Objects("T")[n].technique].renderOrder
                                               * RenderOrderOne

\* C24: a group that the call processes but whose technique has no object
\* constructor or no material gives no object, and every processed group of a
\* buildable technique, also one after such a group, lies in the draw range
\* of an object built in the call.
C24_UnbuildableGroupSkipped ==
    [][IsObjectCall(lastCall') =>
          LET t == lastCall'.tile
          IN  \A g \in 1..Len(decodedTiles[t].geometries) : \A j \in 1..Len(Groups(t, g)) :
                  LET technique == Techniques(t)[Groups(t, g)[j].technique]
                  IN  /\ ~hasObjectConstructor(technique) \/ ~hasMaterial(technique) =>
                            \A n \in 1..Len(Appended(t)) :
                                "technique" \in DOMAIN Appended(t)[n] =>
                                    Appended(t)[n].technique # Groups(t, g)[j].technique
                      /\ Processed(t, g, j, lastCall') => Covering(t, g, j) # {}]_vars

\* A shader group without material was processed and gave no object, and the
\* group after it has its object.
C24_Witness ==
    \E j \in 1..(Len(Groups("T", 1)) - 1) :
        /\ ~hasMaterial(Techniques("T")[Groups("T", 1)[j].technique])
        /\ Groups("T", 1)[j].created
        /\ Drawing("T", 1, j) = {}
        /\ Drawing("T", 1, j + 1) # {}

\* ------------------------------------------------- text claims, continued
\* C25: a createTextElements call for a tile whose text paths were prepared
\* by an earlier call leaves the prepared text paths of the tile unchanged.
C25_TextPathsPreparedOnce ==
    [][IsTextCall(lastCall') /\ tiles[lastCall'.tile].hasPreparedTextPaths =>
          tiles'[lastCall'.tile].preparedTextPaths = tiles[lastCall'.tile].preparedTextPaths]_vars

\* The parts in `paths` that were cut from the path of a feature.
PiecesOf(paths, featureId) == {n \in 1..Len(paths) : paths[n].featureId = featureId}

\* The path of the decoded tile that the work is done on.
WorkSource(featureId) ==
    LET geometries == decodedTiles[lastCall.tile].textPathGeometries
    IN  geometries[CHOOSE n \in 1..Len(geometries) : geometries[n].featureId = featureId]

\* An iteration takes a path from the work list and puts nothing back, or
\* one path with fewer vertices than the path it took.
ShorterTail ==
    \/ newPaths' = Front(newPaths)
    \/ /\ Front(newPaths') = Front(newPaths)
       /\ Len(Last(newPaths').path) < Len(Last(newPaths).path)

\* C27: prepareTextPaths terminates: every iteration that puts a path back on
\* the work list puts back a path strictly shorter than the one it was cut
\* from, the work list becomes empty, and no more parts are made from a path
\* than it has vertices.
C27_PrepareTextPathsTerminates ==
    /\ [][lastCall.fn = "prepareTextPaths" /\ newPaths' # newPaths => ShorterTail]_vars
    /\ [](\A n \in 1..Len(processedPaths) :
             Cardinality(PiecesOf(processedPaths, processedPaths[n].featureId))
                 <= Len(WorkSource(processedPaths[n].featureId).path))
    /\ <>(lastCall.fn = "prepareTextPaths" /\ newPaths = <<>>)

\* The work list is empty after a path was cut twice.
C27_Witness ==
    /\ lastCall.fn = "prepareTextPaths"
    /\ newPaths = <<>>
    /\ \E n \in 1..Len(processedPaths) :
          Cardinality(PiecesOf(processedPaths, processedPaths[n].featureId)) >= 3

\* ------------------------------------------------- text claims, two tiles
\* The squared length of the longest text path of the decoded tile of t.
LongestOfTile(t) ==
    LET sources == decodedTiles[t].textPathGeometries
        lengths == {sources[n].pathLengthSqr : n \in
                       {m \in 1..Len(sources) : isTextTechnique(Techniques(t)[sources[m].technique])}}
    IN  CHOOSE l \in lengths : \A k \in lengths : k <= l

\* What the path length adds to the priority of a path label.
Bonus(t, textElement) ==
    RatAdd(textElement.priority, Rational(0 - BasePriority(t, textElement), 1))

\* C26: in every tile the path-length bonus of every path label lies in
\* [0, 0.1], and a label of the longest text path of the tile has the bonus
\* 0.1, whatever other tiles the creator has worked on between the calls.
C26_BonusRelativeToOwnTile ==
    \A t \in DOMAIN tiles : \A n \in 1..Len(tiles[t].textElements) :
        LET e == tiles[t].textElements[n]
        IN  e.type = "path" =>
              /\ ~RatLess(Bonus(t, e), Rational(0, 1))
              /\ ~RatLess(SORT_WEIGHT_PATH_LENGTH, Bonus(t, e))
              /\ SourcePath(t, e).pathLengthSqr = LongestOfTile(t) =>
                    RatEqual(Bonus(t, e), SORT_WEIGHT_PATH_LENGTH)

\* -------------------------------------------------- style claims, continued
\* The style that the getRenderStyle call of the step returns.
ReturnedStyle ==
    LET t == lastCall'.tile
        technique == Techniques(t)[lastCall'.technique]
        mapView == tiles[t].mapView
    IN  renderStyles'[mapViews'[mapView].textRenderStyleCache[
            computeStyleCacheId(tiles[t].dataSource.name, technique, mapViews[mapView].zoomLevel)]]

\* C30: getRenderStyle for a technique that declares no colour (no background
\* colour) returns a style with the default colour (background colour),
\* whatever earlier calls have put into the static colour map.
C30_ColorOfOwnTechnique ==
    [][lastCall'.fn = "getRenderStyle" =>
          LET technique == Techniques(lastCall'.tile)[lastCall'.technique]
          IN  /\ isUndefined(technique.color) => ReturnedStyle.color = DefaultColor
              /\ isUndefined(technique.backgroundColor) =>
                    ReturnedStyle.backgroundColor = DefaultColor]_vars

\* ------------------------------------------------------- adapter claims
\* The k-th call of the adapter: posted[k] is the message it sent, promises[k]
\* the promise it returned.
CallsMade == 1..Len(posted)

\* The request id of a message event, or 0 when it carries none.
RequestIdOf(messageEvent) ==
    IF ~isUndefined(messageEvent.data) /\ isNumber(messageEvent.data.requestId)
    THEN messageEvent.data.requestId.number
    ELSE 0

\* C28: the calls of an adapter are sent with pairwise distinct request ids,
\* and a message event with request id r resolves the pending promise of the
\* call that was sent with r, with the message, and changes the promise of no
\* other call, in whatever order the responses arrive.
C28_RequestsAndResponsesCorrelated ==
    /\ [](\A k1, k2 \in CallsMade : k1 # k2 => posted[k1].requestId # posted[k2].requestId)
    /\ [][lastCall'.fn = "onMessageFromTarget" =>
            \A k \in CallsMade :
                IF /\ posted[k].requestId.number = RequestIdOf(lastCall'.messageEvent)
                   /\ promises[k] = PendingPromise
                THEN promises'[k] = [state |-> "fulfilled", value |-> lastCall'.messageEvent.data]
                ELSE promises'[k] = promises[k]]_vars

\* The response to the second call has arrived before the response to the
\* first: the second promise is fulfilled with it, the first is pending.
C28_Witness ==
    /\ Len(promises) = 2
    /\ promises[1] = PendingPromise
    /\ promises[2].state = "fulfilled"
    /\ promises[2].value.requestId = posted[2].requestId
    /\ lastCall.fn = "onMessageFromTarget"

\* ---------------------------------------------------------- port claims
\* The listeners that dispatchEvent calls for an event of the type.
Receivers(table, type) ==
    IF ~isUndefined(table) /\ hasListeners(table, type) THEN table[type] ELSE <<>>

\* C29: removeEventListener(type, l) returns, after it the events of the
\* type go to the listeners they went to before except l, and the listeners
\* of the other types stay.
C29_RemovesExactlyListener ==
    [][lastCall'.fn = "removeEventListener" =>
          /\ ~lastCall'.throws
          /\ Receivers(m_listeners', lastCall'.type) =
                 SelectSeq(Receivers(m_listeners, lastCall'.type),
                           LAMBDA existingListener : existingListener # lastCall'.listener)
          /\ \A type \in EventTypes \ {lastCall'.type} :
                 Receivers(m_listeners', type) = Receivers(m_listeners, type)]_vars

====
